---- MODULE Spec2Model ----
(***************************************************************************)
(* Model of src/genie_room.py: the Genie conversation client.              *)
(*                                                                         *)
(*   GenieClient            the retried request operations and the poller  *)
(*   start_new_conversation / continue_conversation                        *)
(*                          submit, poll, list, resolve, normalize          *)
(*   process_genie_response the normalizer                                 *)
(*                                                                         *)
(*   send_feedback          the feedback submission                        *)
(*   genie_query            one ask followed by the listing of its reply   *)
(*                                                                         *)
(* Ten specifications share the actions below:                             *)
(*   Spec         one ask, one feedback or one direct request              *)
(*   SpecResolve  the resolver alone, over every bounded message list      *)
(*   SpecNorm     process_genie_response alone, over every bounded message *)
(*   SpecQuery    genie_query, from the call to its return value           *)
(*   SpecHandler  the handler of continue_conversation, over the errors    *)
(*   SpecTwice    resolver and normalizer run twice over the same answers  *)
(*   SpecSubmit   the submission of one ask, with lost responses           *)
(*   SpecSeq      asks one after another on one conversation               *)
(*   SpecAuth     two flows, their clients and the token collaborator      *)
(*   SpecPair     two asks, each alone and then interleaved                *)
(***************************************************************************)
EXTENDS Integers, Sequences, FiniteSets, TLC

VARIABLES
    pc,                  \* position of the running operation
    op,                  \* "new" (start_new_conversation) or "continue"
    conversation_id,     \* local of the ask operation
    message_id,          \* local: the id the submission returned
    tries,               \* attempts the backoff decorator has made of the current call
    exc,                 \* the exception being propagated, or NoExc
    now,                 \* time.time(), in ticks
    start_time,          \* local of wait_for_message_completion
    attempt,             \* local of wait_for_message_completion
    complete_message,    \* what wait_for_message_completion returned
    messages,            \* messages_response.get("messages", [])
    full_message,        \* the message handed to process_genie_response
    ai,                  \* index of the content pass over the attachments
    result,              \* locals of process_genie_response
    query_text,
    suggested_questions,
    query_result,        \* local of process_genie_response: the last fetched result
    pgr,                 \* what process_genie_response returned
    outcome,             \* what the ask operation returned
    requested,           \* history: request operations of which an attempt was made
    polls,               \* history: calls of get_message made by the poller
    served,              \* history: statuses the service answered the poller with
    fetches,             \* history: addresses of the query-result requests
    raised,              \* what the latest attempt of a request operation raised
    caller,              \* "genie_query" when the ask runs inside genie_query
    gq_messages,         \* local of genie_query: messages of its own list call
    gq,                  \* what genie_query returned
    feedback_type,       \* argument of send_feedback
    posted,              \* history: the feedback POSTs and their answers
    first,               \* what the first of two runs of the normalizer returned
    answers,             \* the service's stored query results, by attachment id
    accepted,            \* history: question submissions the service accepted
    asked,               \* history: asks called so far
    log,                 \* history: the requests and answers of the asks, in order
    token_minter,        \* the token the credential collaborator served last
    headers,             \* self.headers of the client of each flow: the token in it
    calls,               \* the call each flow is in: position, operation, attempts, token acquired
    sent,                \* history: the latest request of each flow, as it went out
    cur,                 \* the flow that is running: its call holds the variables of the asks
    parked,              \* the variables of the call of the other flow, while it is not running
    script,              \* what the service answers the conversation of each flow with
    alone,               \* what each flow gave back when it ran alone
    mode                 \* "alone": one flow after the other; "together": interleaved

vars == <<pc, op, conversation_id, message_id, tries, exc, now, start_time,
          attempt, complete_message, messages, full_message, ai, result,
          query_text, suggested_questions, query_result, pgr, outcome,
          requested, polls, served, fetches, raised, caller, gq_messages,
          gq, feedback_type, posted, first, answers,
          accepted,
          asked, log,
          token_minter, headers, calls, sent,
          cur, parked, script, alone, mode>>

\* the state of genie_query, of send_feedback and of a repeated run
genieQueryVars == <<caller, gq_messages, gq>>
feedbackVars == <<feedback_type, posted>>
replayVars == <<first, answers>>
serviceVars == <<accepted>>
orderVars == <<asked, log>>
authVars == <<token_minter, headers, calls, sent>>
pairVars == <<cur, parked, script, alone, mode>>

-----------------------------------------------------------------------------
(* Bounds of the model.                                                    *)

\* timeout of wait_for_message_completion, in ticks (300 s in the source)
timeout == 6
\* longest time one HTTP attempt of get_message (and its backoff) takes
MaxLatency == 1
\* longest message list the service returns
MaxMsgs == 3
\* most attachments of a message
MaxAtt == 2
\* most rows / values per row of a query result
MaxRows == 2
MaxCols == 2
\* asks made one after the other on one conversation
MaxAsks == 2
\* tokens the credential collaborator issues
MaxTokens == 2

(* Program constants.                                                      *)
max_tries == 5
poll_interval == 2

-----------------------------------------------------------------------------
(* Python values. A value whose type the code tests, or that may be None,  *)
(* carries its type.                                                       *)

None == [type |-> "NoneType"]
\* a str, as the sequence of its pieces
Str(s) == [type |-> "str", str |-> <<s>>]
StrCat(pieces) == [type |-> "str", str |-> pieces]
List(q) == [type |-> "list", items |-> q]
Dict(d) == [type |-> "dict", dict |-> d]
DataFrame(data, columns) == [type |-> "DataFrame", columns |-> columns, rows |-> data]

\* the empty dict {}
EmptyDict == [k \in {} |-> None]

\* d.get(k)
Get(d, k) == IF k \in DOMAIN d THEN d[k] ELSE None

\* d.get(k, default)
GetDefault(d, k, default) == IF k \in DOMAIN d THEN d[k] ELSE default

\* bool(d) of a dict
Truthy(d) == DOMAIN d # {}

NoExc == [type |-> "none"]
NoOutcome == [type |-> "pending"]

-----------------------------------------------------------------------------
(* Exceptions. str is str(e), as a sequence of pieces.                     *)

ConnectionError == [type |-> "ConnectionError", str |-> <<"Connection refused">>]
HTTPError500 == [type |-> "HTTPError", str |-> <<"500", " Server Error: ", "Internal Server Error">>]
TimeoutError == [type |-> "TimeoutError",
                 str |-> <<"Message processing timed out after ", "timeout", " seconds">>]

\* the connection broke while the response was awaited: the request had
\* reached the service
RemoteDisconnected ==
    [type |-> "ConnectionError",
     str |-> <<"Connection aborted: remote end closed connection without response">>]

\* token_minter.get_token() failing
CredentialError == [type |-> "CredentialError", str |-> <<"token request failed">>]

\* str(e) of the HTTPError that raise_for_status raises for a 4xx or 5xx
\* answer; status and url are sequences of pieces
HTTPError(status, reason, url) ==
    [type |-> "HTTPError",
     str |-> status \o <<IF status[1] = "4" THEN " Client Error: " ELSE " Server Error: ",
                         reason, " for url: ">> \o url]

HTTPError404 == HTTPError(<<"4", "0", "4">>, "Not Found", <<"https://host/api/2.0/genie/spaces/space">>)

\* what one attempt of a request can raise: update_headers, requests.post/get,
\* raise_for_status
Errors == {CredentialError, ConnectionError, HTTPError404, HTTPError500}

-----------------------------------------------------------------------------
(* The service's answers, as the JSON the client parses.                   *)

\* response of POST start-conversation
StartResponses ==
    { [conversation_id |-> Str("c1"), message_id |-> Str("m1")],
      [conversation_id |-> Str("c1")] }

\* response of POST conversations/{id}/messages
SendResponses == { [message_id |-> Str("m1")] }

\* statuses of a message; "MISSING" stands for a message without a status field
Statuses == {"EXECUTING_QUERY", "MISSING", "COMPLETED", "ERROR", "FAILED"}

\* response of GET conversations/{id}/messages/{id}
PolledMessage(s) ==
    IF s = "MISSING"
    THEN [message_id |-> Str("m1"), content |-> Str("question")]
    ELSE [message_id |-> Str("m1"), status |-> Str(s), content |-> Str("question")]

-----------------------------------------------------------------------------
(* Attachments, messages and query results the service can answer with.    *)

TextAtt(id, c) == [attachment_id |-> Str(id), text |-> [content |-> c]]
QueryAtt(id, q) == [attachment_id |-> Str(id), query |-> [query |-> Str(q)]]
SuggestedAtt(id, sq) == [suggested_questions |-> sq, attachment_id |-> Str(id)]
Questions(q) == Dict([questions |-> List(q)])

\* suggested_questions payloads that lack the documented structure
MalformedSuggested == { Str("not an object"), Dict(EmptyDict), Dict([questions |-> None]) }

AttShapes ==
    { TextAtt("a1", Str("T1")),
      TextAtt("a3", None),
      [attachment_id |-> Str("a4"), text |-> EmptyDict],
      QueryAtt("a5", "SELECT 1"), QueryAtt("a6", "SELECT 2"),
      [attachment_id |-> Str("a7"), query |-> EmptyDict],
      SuggestedAtt("a8", Questions(<<"A", "B">>)),
      SuggestedAtt("a9", Questions(<<"C">>)),
      [suggested_questions |-> Questions(<<"A", "B">>), attachment_id |-> Str("a11"),
       text |-> [content |-> Str("T3")]],
      [suggested_questions |-> Questions(<<"A", "B">>), attachment_id |-> Str("a12"),
       query |-> [query |-> Str("SELECT 3")]] }
    \cup { SuggestedAtt("a13", sq) : sq \in MalformedSuggested }

\* sequences of at most n elements of S
SeqUpTo(S, n) == UNION { [1..k -> S] : k \in 0..n }

\* the answer messages process_genie_response is run on
NormMessages ==
    LET base == { [message_id |-> Str("m2")],
                  [message_id |-> Str("m2"), content |-> Str("top")],
                  [message_id |-> Str("m2"), content |-> None] }
    IN  base \cup
        { [k \in DOMAIN b \cup {"attachments"} |->
              IF k = "attachments" THEN atts ELSE b[k]] :
          b \in base, atts \in SeqUpTo(AttShapes, MaxAtt) }

\* data_array of r rows of c values
DataArray(r, c) == [i \in 1..r |-> [j \in 1..c |-> Str(ToString(10 * i + j))]]

\* the row sets of the model: none, and the smallest and largest number of
\* rows with the smallest and largest number of values
DataArrays == { DataArray(r, c) : r \in {0, 1, MaxRows}, c \in {1, MaxCols} }

\* n column descriptors
ColumnDescs(n) == [i \in 1..n |-> [name |-> StrCat(<<"n", ToString(i)>>)]]

\* the numbers of column descriptors sent with the rows d: none, one per
\* value, one too many
DescriptorCounts(d) ==
    IF d = <<>> THEN {0, 1} ELSE {0, Len(d[1]), Len(d[1]) + 1}

\* bodies of GET .../query-result
QueryResponses ==
    { EmptyDict, [statement_response |-> EmptyDict] }
    \cup { [statement_response |-> [result |-> [data_array |-> d]]] : d \in DataArrays }
    \cup UNION { { [statement_response |->
                      [result |-> [data_array |-> d],
                       manifest |-> [schema |-> [columns |-> ColumnDescs(n)]]]] :
                   n \in DescriptorCounts(d) } : d \in DataArrays }

\* bodies of GET .../query-result in the ask flow: no rows, rows without
\* column descriptors, rows with them
FlowQueryResponses ==
    { EmptyDict,
      [statement_response |-> [result |-> [data_array |-> DataArray(1, 1)]]],
      [statement_response |->
          [result |-> [data_array |-> DataArray(1, 1)],
           manifest |-> [schema |-> [columns |-> ColumnDescs(1)]]]] }

\* entries of the message lists the resolver is run on
UserMessage(id) == [message_id |-> Str(id), content |-> Str("question"), role |-> Str("USER")]
BotMessage(id, atts) ==
    [message_id |-> Str(id), content |-> Str("answer"), role |-> Str("ASSISTANT"),
     attachments |-> atts]

ResolverEntries ==
    { UserMessage("m1"), UserMessage("m3"),
      BotMessage("m2", <<TextAtt("a1", Str("T1"))>>), BotMessage("m4", <<>>),
      EmptyDict, [content |-> Str("no id")] }

\* bodies of GET conversations/{id}/messages in the ask flow
ListResponses ==
    { EmptyDict, [messages |-> <<>>], [messages |-> <<UserMessage("m1")>>],
      [messages |-> <<UserMessage("m1"), EmptyDict,
                      BotMessage("m2", <<TextAtt("a1", Str("T1"))>>)>>] }
    \cup { [messages |-> <<UserMessage("m1"), BotMessage("m2", atts)>>] :
           atts \in { <<>>, <<TextAtt("a1", Str("T1"))>>,
                      <<QueryAtt("a5", "SELECT 1"), TextAtt("a1", Str("T1"))>>,
                      <<SuggestedAtt("a8", Questions(<<"A", "B">>)),
                        QueryAtt("a5", "SELECT 1")>> } }
    \cup { [messages |-> <<UserMessage("m1"), BotMessage("m2", <<TextAtt("a1", Str("T1"))>>),
                           BotMessage("m4", <<>>)>>] }

-----------------------------------------------------------------------------
(* GenieClient.wait_for_message_completion                                 *)

\* the loop condition with <= for <
WithinTimeoutInclusive(elapsed) == elapsed <= timeout

\* line 250: the loop condition
WithinTimeout(elapsed) == elapsed < timeout

\* the terminal test without FAILED
IsTerminalWithoutFailed(status) == status \in {Str("COMPLETED"), Str("ERROR")}

\* the terminal test with COMPLETED alone
IsTerminalCompletedOnly(status) == status = Str("COMPLETED")

\* line 255: status in ["COMPLETED", "ERROR", "FAILED"]
IsTerminal(status) == status \in {Str("COMPLETED"), Str("ERROR"), Str("FAILED")}

-----------------------------------------------------------------------------
(* The backoff decorator of every request operation: at most max_tries     *)
(* attempts, the last failure re-raised.                                   *)

\* the decorator taking max_tries for the number of retries
GiveUpAfterRetries == tries + 1 >= max_tries + 1

\* max_tries=5: the attempt that just failed was the last one allowed
GiveUp == tries + 1 >= max_tries

\* an attempt of the current call raised e; handler is where the exception
\* goes when the decorator gives up
AttemptFailedTo(e, handler) ==
    /\ tries' = tries + 1
    /\ raised' = e
    /\ IF GiveUp
       THEN exc' = raised' /\ pc' = handler
       ELSE exc' = exc /\ pc' = pc

\* an attempt of a call made in the try block of an ask raised e
AttemptFailed(e) == AttemptFailedTo(e, "except")

-----------------------------------------------------------------------------
(* The credential collaborator and the clients: lines 23-43.               *)

\* the flows that run at the same time, each in a call of its own
Flows == {1, 2}

\* tokens are numbered in the order the collaborator issues them
NoToken == 0

\* get_token(): the collaborator serves the token it holds or a new one
GetToken == { t \in {token_minter, token_minter + 1} : t >= 1 /\ t <= MaxTokens }

\* one headers holder for all the clients
HolderShared(p) == 1

\* lines 278-281, 350-353, 619-622: every call builds a client of its own,
\* and self.headers is a field of that client
HolderOf(p) == p

\* the operations of GenieClient that send a request
Operations ==
    {"start_conversation", "send_message", "get_message",
     "list_conversation_messages", "get_query_result", "execute_query",
     "get_space_details", "send_message_feedback"}

\* all but send_message_feedback carry the backoff decorator
Retried(operation) == operation # "send_message_feedback"

NoCall == [pc |-> "idle", tries |-> 0, operation |-> "none",
           acquired |-> NoToken, fresh |-> FALSE]

NoRequest == [operation |-> "none", acquired |-> NoToken, token |-> NoToken,
              preceded |-> FALSE]

-----------------------------------------------------------------------------
(* The order of the requests of the asks, as the service sees it.          *)

\* the log l with the event of the running ask added, unless it is the
\* latest entry already (a retried attempt)
LoggedIn(l, event) ==
    IF l # <<>> /\ l[Len(l)] = <<asked, event>>
    THEN l
    ELSE Append(l, <<asked, event>>)

Logged(event) == LoggedIn(log, event)

-----------------------------------------------------------------------------
(* The ask operations: start_new_conversation and continue_conversation.   *)

CallNew ==
    /\ pc = "idle"
    /\ op' = "new"
    /\ pc' = "client"
    /\ UNCHANGED <<query_result, conversation_id, message_id, tries, exc, now,
                   start_time, attempt, complete_message, messages,
                   full_message, ai, result, query_text, suggested_questions,
                   pgr, outcome, requested, polls, served, fetches>>
    /\ UNCHANGED <<raised, genieQueryVars, feedbackVars, replayVars, serviceVars>>
    /\ asked' = asked + 1
    /\ log' = log
    /\ UNCHANGED <<authVars, pairVars>>

CallContinue ==
    /\ pc = "idle"
    /\ op' = "continue"
    /\ conversation_id' = Str("c1")
    /\ pc' = "client"
    /\ UNCHANGED <<query_result, message_id, tries, exc, now, start_time, attempt,
                   complete_message, messages, full_message, ai, result,
                   query_text, suggested_questions, pgr, outcome, requested,
                   polls, served, fetches>>
    /\ UNCHANGED <<raised, genieQueryVars, feedbackVars, replayVars, serviceVars>>
    /\ asked' = asked + 1
    /\ log' = log
    /\ UNCHANGED <<authVars, pairVars>>

\* the locals and histories a step outside the ask's try block leaves alone
askVars == <<conversation_id, message_id, now, start_time, attempt,
             complete_message, messages, full_message, ai, result, query_text,
             suggested_questions, query_result, pgr, outcome, requested,
             polls, served, fetches>>

\* GenieClient(...), lines 278-281 and 350-353: update_headers got its token
ClientOk ==
    /\ pc = "client"
    /\ pc' = IF op = "new" THEN "start_conversation" ELSE "send_message"
    /\ tries' = 0
    /\ UNCHANGED <<op, exc, askVars, raised, genieQueryVars, feedbackVars, replayVars, serviceVars, orderVars, authVars, pairVars>>

\* GenieClient(...) raises what get_token raised: the statement stands before
\* the try block, so only a caller's handler can catch it
ClientFail ==
    /\ pc = "client"
    /\ exc' = CredentialError
    /\ pc' = IF caller = "genie_query" THEN "gq_except" ELSE "raised"
    /\ UNCHANGED <<op, tries, askVars, raised, genieQueryVars, feedbackVars, replayVars, serviceVars, orderVars, authVars, pairVars>>

StartConversationFail(e) ==
    /\ pc = "start_conversation"
    /\ requested' = requested \cup {"start_conversation"}
    /\ AttemptFailed(e)
    /\ UNCHANGED <<query_result, op, conversation_id, message_id, now,
                   start_time, attempt, complete_message, messages,
                   full_message, ai, result, query_text, suggested_questions,
                   pgr, outcome, polls, served, fetches>>
    /\ UNCHANGED <<genieQueryVars, feedbackVars, replayVars, serviceVars>>
    /\ log' = Logged("submit")
    /\ asked' = asked
    /\ UNCHANGED <<authVars, pairVars>>

StartConversationOk(response) ==
    /\ pc = "start_conversation"
    /\ requested' = requested \cup {"start_conversation"}
    /\ conversation_id' = Get(response, "conversation_id")
    /\ message_id' = Get(response, "message_id")
    /\ pc' = "wait"
    /\ UNCHANGED <<query_result, op, tries, exc, now, start_time, attempt,
                   complete_message, messages, full_message, ai, result,
                   query_text, suggested_questions, pgr, outcome, polls,
                   served, fetches>>
    /\ raised' = NoExc
    /\ accepted' = accepted + 1
    /\ UNCHANGED <<genieQueryVars, feedbackVars, replayVars>>
    /\ log' = LoggedIn(Logged("submit"), "submitted")
    /\ asked' = asked
    /\ UNCHANGED <<authVars, pairVars>>

\* an attempt of start_conversation whose POST the service accepted and whose
\* response never arrived: requests.post raises, the decorator retries
StartConversationLost ==
    /\ pc = "start_conversation"
    /\ requested' = requested \cup {"start_conversation"}
    /\ accepted' = accepted + 1
    /\ AttemptFailed(RemoteDisconnected)
    /\ UNCHANGED <<query_result, op, conversation_id, message_id, now,
                   start_time, attempt, complete_message, messages,
                   full_message, ai, result, query_text, suggested_questions,
                   pgr, outcome, polls, served, fetches>>
    /\ UNCHANGED <<genieQueryVars, feedbackVars, replayVars>>
    /\ log' = Logged("submit")
    /\ asked' = asked
    /\ UNCHANGED <<authVars, pairVars>>

SendMessageFail(e) ==
    /\ pc = "send_message"
    /\ requested' = requested \cup {"send_message"}
    /\ AttemptFailed(e)
    /\ UNCHANGED <<query_result, op, conversation_id, message_id, now,
                   start_time, attempt, complete_message, messages,
                   full_message, ai, result, query_text, suggested_questions,
                   pgr, outcome, polls, served, fetches>>
    /\ UNCHANGED <<genieQueryVars, feedbackVars, replayVars, serviceVars>>
    /\ log' = Logged("submit")
    /\ asked' = asked
    /\ UNCHANGED <<authVars, pairVars>>

SendMessageOk(response) ==
    /\ pc = "send_message"
    /\ requested' = requested \cup {"send_message"}
    /\ message_id' = Get(response, "message_id")
    /\ pc' = "wait"
    /\ UNCHANGED <<query_result, op, conversation_id, tries, exc, now,
                   start_time, attempt, complete_message, messages,
                   full_message, ai, result, query_text, suggested_questions,
                   pgr, outcome, polls, served, fetches>>
    /\ raised' = NoExc
    /\ accepted' = accepted + 1
    /\ UNCHANGED <<genieQueryVars, feedbackVars, replayVars>>
    /\ log' = LoggedIn(Logged("submit"), "submitted")
    /\ asked' = asked
    /\ UNCHANGED <<authVars, pairVars>>

\* the same for an attempt of send_message
SendMessageLost ==
    /\ pc = "send_message"
    /\ requested' = requested \cup {"send_message"}
    /\ accepted' = accepted + 1
    /\ AttemptFailed(RemoteDisconnected)
    /\ UNCHANGED <<query_result, op, conversation_id, message_id, now,
                   start_time, attempt, complete_message, messages,
                   full_message, ai, result, query_text, suggested_questions,
                   pgr, outcome, polls, served, fetches>>
    /\ UNCHANGED <<genieQueryVars, feedbackVars, replayVars>>
    /\ log' = Logged("submit")
    /\ asked' = asked
    /\ UNCHANGED <<authVars, pairVars>>

\* the ask going on to the list call without waiting for the message
WaitSkipped ==
    /\ pc = "wait"
    /\ start_time' = now
    /\ attempt' = 1
    /\ pc' = "list_conversation_messages"
    /\ UNCHANGED <<query_result, op, conversation_id, message_id, tries, exc,
                   now, complete_message, messages, full_message, ai, result,
                   query_text, suggested_questions, pgr, outcome, requested,
                   polls, served, fetches>>
    /\ UNCHANGED <<raised, genieQueryVars, feedbackVars, replayVars, serviceVars, orderVars, authVars, pairVars>>

\* lines 247-248
WaitEnter ==
    /\ pc = "wait"
    /\ start_time' = now
    /\ attempt' = 1
    /\ pc' = "wait_check"
    /\ UNCHANGED <<query_result, op, conversation_id, message_id, tries, exc,
                   now, complete_message, messages, full_message, ai, result,
                   query_text, suggested_questions, pgr, outcome, requested,
                   polls, served, fetches>>
    /\ UNCHANGED <<raised, genieQueryVars, feedbackVars, replayVars, serviceVars, orderVars, authVars, pairVars>>

\* line 250, then the call of line 252 or the raise of line 261
WaitCheck ==
    /\ pc = "wait_check"
    /\ IF WithinTimeout(now - start_time)
       THEN /\ pc' = "get_message"
            /\ tries' = 0
            /\ polls' = polls + 1
            /\ exc' = exc
       ELSE /\ pc' = "except"
            /\ exc' = TimeoutError
            /\ UNCHANGED <<tries, polls>>
    /\ UNCHANGED <<query_result, op, conversation_id, message_id, now,
                   start_time, attempt, complete_message, messages,
                   full_message, ai, result, query_text, suggested_questions,
                   pgr, outcome, requested, served, fetches>>
    /\ UNCHANGED <<raised, genieQueryVars, feedbackVars, replayVars, serviceVars, orderVars, authVars, pairVars>>

\* an attempt of get_message fails after d ticks
GetMessageFail(e, d) ==
    /\ pc = "get_message"
    /\ requested' = requested \cup {"get_message"}
    /\ now' = now + d
    /\ AttemptFailed(e)
    /\ UNCHANGED <<query_result, op, conversation_id, message_id, start_time,
                   attempt, complete_message, messages, full_message, ai,
                   result, query_text, suggested_questions, pgr, outcome,
                   polls, served, fetches>>
    /\ UNCHANGED <<genieQueryVars, feedbackVars, replayVars, serviceVars, orderVars, authVars, pairVars>>

\* an attempt of get_message answers after d ticks: lines 252-256
GetMessageOk(message, d) ==
    /\ pc = "get_message"
    /\ requested' = requested \cup {"get_message"}
    /\ now' = now + d
    /\ served' = Append(served, Get(message, "status"))
    /\ IF IsTerminal(Get(message, "status"))
       THEN /\ complete_message' = message
            /\ pc' = "list_conversation_messages"
            /\ tries' = 0
       ELSE /\ pc' = "sleep"
            /\ UNCHANGED <<complete_message, tries>>
    /\ UNCHANGED <<query_result, op, conversation_id, message_id, exc,
                   start_time, attempt, messages, full_message, ai, result,
                   query_text, suggested_questions, pgr, outcome, polls,
                   fetches>>
    /\ raised' = NoExc
    /\ UNCHANGED <<genieQueryVars, feedbackVars, replayVars, serviceVars>>
    /\ log' = IF IsTerminal(Get(message, "status")) THEN Logged("terminal") ELSE log
    /\ asked' = asked
    /\ UNCHANGED <<authVars, pairVars>>

\* lines 258-259
Sleep ==
    /\ pc = "sleep"
    /\ now' = now + poll_interval
    /\ attempt' = attempt + 1
    /\ pc' = "wait_check"
    /\ UNCHANGED <<query_result, op, conversation_id, message_id, tries, exc,
                   start_time, complete_message, messages, full_message, ai,
                   result, query_text, suggested_questions, pgr, outcome,
                   requested, polls, served, fetches>>
    /\ UNCHANGED <<raised, genieQueryVars, feedbackVars, replayVars, serviceVars, orderVars, authVars, pairVars>>


\* an attempt of list_conversation_messages fails
ListMessagesFail(e) ==
    /\ pc = "list_conversation_messages"
    /\ requested' = requested \cup {"list_conversation_messages"}
    /\ AttemptFailed(e)
    /\ UNCHANGED <<query_result, op, conversation_id, message_id, now,
                   start_time, attempt, complete_message, messages,
                   full_message, ai, result, query_text, suggested_questions,
                   pgr, outcome, polls, served, fetches>>
    /\ UNCHANGED <<genieQueryVars, feedbackVars, replayVars, serviceVars>>
    /\ log' = Logged("list")
    /\ asked' = asked
    /\ UNCHANGED <<authVars, pairVars>>

\* an attempt of list_conversation_messages answers: lines 294-300
ListMessagesOk(messages_response) ==
    /\ pc = "list_conversation_messages"
    /\ requested' = requested \cup {"list_conversation_messages"}
    /\ messages' = GetDefault(messages_response, "messages", <<>>)
    /\ pc' = "resolve"
    /\ UNCHANGED <<query_result, op, conversation_id, message_id, tries, exc,
                   now, start_time, attempt, complete_message, full_message,
                   ai, result, query_text, suggested_questions, pgr, outcome,
                   polls, served, fetches>>
    /\ raised' = NoExc
    /\ UNCHANGED <<genieQueryVars, feedbackVars, replayVars, serviceVars>>
    /\ log' = LoggedIn(Logged("list"), "listed")
    /\ asked' = asked
    /\ UNCHANGED <<authVars, pairVars>>

-----------------------------------------------------------------------------
(* The response resolver: lines 299-324 and 370-395.                       *)

\* the loop of lines 306-316: the index of the first entry whose message_id
\* equals the submitted id, 0 when there is none
RECURSIVE FindUserMessage(_, _, _)
FindUserMessage(msgs, mid, i) ==
    IF i > Len(msgs) THEN 0
    ELSE IF Get(msgs[i], "message_id") = mid THEN i
    ELSE FindUserMessage(msgs, mid, i + 1)

\* bot_response_message after the loop; <<>> stands for None
BotResponseMessage(msgs, mid) ==
    LET i == FindUserMessage(msgs, mid, 1)
    IN  IF i # 0 /\ i + 1 <= Len(msgs) THEN <<msgs[i + 1]>> ELSE <<>>

\* lines 319-324: "if bot_response_message:" is the truth value of the dict
UseBotResponse(bot) == bot # <<>> /\ Truthy(bot[1])

\* the resolver with the polled message ahead of the last entry
ResolveAnswerPolledFirst(polled, msgs, mid) ==
    LET bot == BotResponseMessage(msgs, mid)
    IN  IF UseBotResponse(bot) THEN bot[1] ELSE polled

\* full_message as line 327 passes it on
ResolveAnswer(polled, msgs, mid) ==
    LET bot == BotResponseMessage(msgs, mid)
    IN  IF UseBotResponse(bot) THEN bot[1]
        ELSE IF msgs # <<>> THEN msgs[Len(msgs)]
        ELSE polled

Resolve ==
    /\ pc = "resolve"
    /\ full_message' = ResolveAnswer(complete_message, messages, message_id)
    /\ pc' = "pgr_collect"
    /\ UNCHANGED <<query_result, op, conversation_id, message_id, tries, exc,
                   now, start_time, attempt, complete_message, messages, ai,
                   result, query_text, suggested_questions, pgr, outcome,
                   requested, polls, served, fetches>>
    /\ UNCHANGED <<raised, genieQueryVars, feedbackVars, replayVars, serviceVars, orderVars, authVars, pairVars>>


-----------------------------------------------------------------------------
(* GenieClient.get_query_result: lines 136-154.                            *)

\* what get_query_result returns for the JSON body raw
ExtractQueryResult(raw) ==
    LET data_array ==
            IF /\ "statement_response" \in DOMAIN raw
               /\ "result" \in DOMAIN raw.statement_response
            THEN GetDefault(raw.statement_response.result, "data_array", <<>>)
            ELSE <<>>
        schema ==
            GetDefault(GetDefault(GetDefault(raw, "statement_response", EmptyDict),
                                  "manifest", EmptyDict),
                       "schema", EmptyDict)
    IN  [data_array |-> data_array, schema |-> schema]

-----------------------------------------------------------------------------
(* process_genie_response: lines 412-497.                                  *)

TypeError == [type |-> "TypeError", str |-> <<"object of type 'NoneType' has no len()">>]
ValueError == [type |-> "ValueError", str |-> <<"columns passed, passed data had other columns">>]

\* the collection pass, lines 436-456, from attachment i on with sq collected so
\* far; raised when line 452 takes len() of None
RECURSIVE CollectFrom(_, _, _)
CollectFrom(attachments, i, sq) ==
    IF i > Len(attachments) THEN [raised |-> FALSE, value |-> sq]
    ELSE LET attachment == attachments[i]
         IN  IF "suggested_questions" \in DOMAIN attachment
             THEN LET sq_data == attachment.suggested_questions
                  IN  IF sq_data.type = "dict" /\ "questions" \in DOMAIN sq_data.dict
                      THEN IF sq_data.dict.questions.type = "NoneType"
                           THEN [raised |-> TRUE, value |-> None]
                           ELSE CollectFrom(attachments, i + 1, sq_data.dict.questions)
                      ELSE CollectFrom(attachments, i + 1, sq)
             ELSE CollectFrom(attachments, i + 1, sq)

\* the collection pass with a malformed payload emptying the list
RECURSIVE CollectResetting(_, _, _)
CollectResetting(attachments, i, sq) ==
    IF i > Len(attachments) THEN [raised |-> FALSE, value |-> sq]
    ELSE LET attachment == attachments[i]
         IN  IF "suggested_questions" \in DOMAIN attachment
             THEN LET sq_data == attachment.suggested_questions
                  IN  IF sq_data.type = "dict" /\ "questions" \in DOMAIN sq_data.dict
                      THEN IF sq_data.dict.questions.type = "NoneType"
                           THEN [raised |-> TRUE, value |-> None]
                           ELSE CollectResetting(attachments, i + 1, sq_data.dict.questions)
                      ELSE CollectResetting(attachments, i + 1, List(<<>>))
             ELSE CollectResetting(attachments, i + 1, sq)

CollectSuggestedResetting(attachments) == CollectResetting(attachments, 1, List(<<>>))

\* the collection pass adding to the list an earlier call left behind
CollectSuggestedKeeping(attachments) ==
    LET c == CollectFrom(attachments, 1, List(<<>>))
    IN  IF c.raised THEN c
        ELSE [raised |-> FALSE,
              value |-> List(suggested_questions.items \o c.value.items)]

\* suggested_questions after the collection pass
CollectSuggested(attachments) == CollectFrom(attachments, 1, List(<<>>))

\* line 433
Attachments(message) == GetDefault(message, "attachments", <<>>)

\* the text test looking for "content" on the attachment itself
HasTextContentTopLevel(attachment) ==
    "text" \in DOMAIN attachment /\ "content" \in DOMAIN attachment

\* the text test passing over a null content
HasTextContentNonNull(attachment) ==
    /\ "text" \in DOMAIN attachment
    /\ "content" \in DOMAIN attachment.text
    /\ attachment.text.content # None

\* line 463
HasTextContent(attachment) ==
    "text" \in DOMAIN attachment /\ "content" \in DOMAIN attachment.text

\* line 475
Columns(schema) ==
    LET cols == GetDefault(schema, "columns", <<>>)
    IN  [i \in 1..Len(cols) |-> Get(cols[i], "name")]

\* the generic names counted by the rows instead of the first row's values
GenericColumnsByRows(data_array) ==
    [i \in 1..Len(data_array) |-> StrCat(<<"column_", ToString(i - 1)>>)]

\* line 481: f"column_{i}" for i in range(len(data_array[0]))
GenericColumns(data_array) ==
    [i \in 1..Len(data_array[1]) |-> StrCat(<<"column_", ToString(i - 1)>>)]

\* lines 480-481
ColumnsFor(data_array, columns) ==
    IF columns = <<>> THEN GenericColumns(data_array) ELSE columns

\* pd.DataFrame(data, columns=columns) raises when a row is wider or narrower
\* than the columns given
DataFrameRaises(data, columns) ==
    \E r \in 1..Len(data) : Len(data[r]) # Len(columns)

\* lines 428-456
PGRCollect ==
    /\ pc = "pgr_collect"
    /\ LET c == CollectSuggested(Attachments(full_message))
       IN  IF c.raised
           THEN /\ exc' = TypeError
                /\ pc' = "except"
                /\ UNCHANGED <<suggested_questions, result, query_text, ai>>
           ELSE /\ suggested_questions' = c.value
                /\ result' = None
                /\ query_text' = None
                /\ ai' = 1
                /\ pc' = "pgr_scan"
                /\ exc' = exc
    /\ UNCHANGED <<query_result, op, conversation_id, message_id, tries, now,
                   start_time, attempt, complete_message, messages,
                   full_message, pgr, outcome, requested, polls, served,
                   fetches>>
    /\ UNCHANGED <<raised, genieQueryVars, feedbackVars, replayVars, serviceVars, orderVars, authVars, pairVars>>

\* one round of the content pass, lines 459-471, up to the request it makes
PGRScan ==
    /\ pc = "pgr_scan"
    /\ LET attachments == Attachments(full_message)
       IN  IF ai > Len(attachments)
           THEN /\ pc' = "pgr_return"
                /\ UNCHANGED <<result, query_text, ai, tries>>
           ELSE LET attachment == attachments[ai]
                IN  IF HasTextContent(attachment)
                    THEN /\ result' = attachment.text.content
                         /\ query_text' = None
                         /\ pc' = "pgr_return"
                         /\ UNCHANGED <<ai, tries>>
                    ELSE IF "query" \in DOMAIN attachment
                    THEN /\ query_text' = GetDefault(attachment.query, "query", Str(""))
                         /\ pc' = "get_query_result"
                         /\ tries' = 0
                         /\ UNCHANGED <<result, ai>>
                    ELSE /\ ai' = ai + 1
                         /\ pc' = pc
                         /\ UNCHANGED <<result, query_text, tries>>
    /\ UNCHANGED <<query_result, op, conversation_id, message_id, exc, now,
                   start_time, attempt, complete_message, messages,
                   full_message, suggested_questions, pgr, outcome,
                   requested, polls, served, fetches>>
    /\ UNCHANGED <<raised, genieQueryVars, feedbackVars, replayVars, serviceVars, orderVars, authVars, pairVars>>

\* the address of the request of line 471
FetchAddress ==
    <<conversation_id, message_id,
      Get(Attachments(full_message)[ai], "attachment_id")>>

\* an attempt of get_query_result fails
GetQueryResultFail(e) ==
    /\ pc = "get_query_result"
    /\ requested' = requested \cup {"get_query_result"}
    /\ fetches' = fetches \cup {FetchAddress}
    /\ AttemptFailed(e)
    /\ UNCHANGED <<query_result, op, conversation_id, message_id, now,
                   start_time, attempt, complete_message, messages,
                   full_message, ai, result, query_text, suggested_questions,
                   pgr, outcome, polls, served>>
    /\ UNCHANGED <<genieQueryVars, feedbackVars, replayVars, serviceVars>>
    /\ log' = Logged("fetch")
    /\ asked' = asked
    /\ UNCHANGED <<authVars, pairVars>>

\* an attempt of get_query_result answers raw: lines 471-484
GetQueryResultOk(raw) ==
    /\ pc = "get_query_result"
    /\ requested' = requested \cup {"get_query_result"}
    /\ fetches' = fetches \cup {FetchAddress}
    /\ query_result' = ExtractQueryResult(raw)
    /\ LET data_array == ExtractQueryResult(raw).data_array
           columns == Columns(ExtractQueryResult(raw).schema)
       IN  IF data_array # <<>>
           THEN IF DataFrameRaises(data_array, ColumnsFor(data_array, columns))
                THEN /\ exc' = ValueError
                     /\ pc' = "except"
                     /\ UNCHANGED <<result, ai>>
                ELSE /\ result' = DataFrame(data_array, ColumnsFor(data_array, columns))
                     /\ pc' = "pgr_return"
                     /\ UNCHANGED <<exc, ai>>
           ELSE /\ ai' = ai + 1
                /\ pc' = "pgr_scan"
                /\ UNCHANGED <<exc, result>>
    /\ UNCHANGED <<op, conversation_id, message_id, tries, now, start_time,
                   attempt, complete_message, messages, full_message,
                   query_text, suggested_questions, pgr, outcome, polls,
                   served>>
    /\ raised' = NoExc
    /\ UNCHANGED <<genieQueryVars, feedbackVars, replayVars, serviceVars>>
    /\ log' = Logged("fetch")
    /\ asked' = asked
    /\ UNCHANGED <<authVars, pairVars>>

\* the return of lines 486-497 with the fallback handing query_text on
ReturnedKeepingQuery(message, res, qt, sq) ==
    IF res # None
    THEN [result |-> res, query_text |-> qt, suggested_questions |-> sq]
    ELSE IF "content" \in DOMAIN message
    THEN [result |-> message.content, query_text |-> qt, suggested_questions |-> sq]
    ELSE [result |-> Str("No response available"), query_text |-> qt,
          suggested_questions |-> List(<<>>)]

\* lines 486-497: what process_genie_response returns
Returned(message, res, qt, sq) ==
    IF res # None
    THEN [result |-> res, query_text |-> qt, suggested_questions |-> sq]
    ELSE IF "content" \in DOMAIN message
    THEN [result |-> message.content, query_text |-> None, suggested_questions |-> sq]
    ELSE [result |-> Str("No response available"), query_text |-> None,
          suggested_questions |-> List(<<>>)]

PGRReturn ==
    /\ pc = "pgr_return"
    /\ pgr' = Returned(full_message, result, query_text, suggested_questions)
    /\ pc' = "return"
    /\ UNCHANGED <<query_result, op, conversation_id, message_id, tries, exc,
                   now, start_time, attempt, complete_message, messages,
                   full_message, ai, result, query_text, suggested_questions,
                   outcome, requested, polls, served, fetches>>
    /\ UNCHANGED <<raised, genieQueryVars, feedbackVars, replayVars, serviceVars, orderVars, authVars, pairVars>>

-----------------------------------------------------------------------------
(* The ask operations, continued: the return and the handlers.             *)

\* needle in hay, for str values given as sequences of pieces
In(needle, hay) ==
    \E i \in 0..(Len(hay) - Len(needle)) :
        \A j \in 1..Len(needle) : hay[i + j] = needle[j]

\* lines 331-332
NewErrorText(e) ==
    StrCat(<<"Sorry, an error occurred: ">> \o e.str \o <<". Please try again.">>)

\* the texts of lines 405 and 407
HighDemandText ==
    Str("Sorry, the system is currently experiencing high demand. Please try again in a few moments.")
ExpiredText ==
    Str("Sorry, the previous conversation has expired. Please try your query again to start a new conversation.")

\* lines 402-410
ContinueErrorText(e) ==
    IF In(<<"4", "2", "9">>, e.str) \/ In(<<"Too Many Requests">>, e.str)
    THEN HighDemandText
    ELSE IF In(<<"Conversation not found">>, e.str)
    THEN ExpiredText
    ELSE StrCat(<<"Sorry, an error occurred: ">> \o e.str)

\* lines 329 and 400
Return ==
    /\ pc = "return"
    /\ outcome' = IF op = "new"
                  THEN [conversation_id |-> conversation_id, result |-> pgr.result,
                        query_text |-> pgr.query_text,
                        suggested_questions |-> pgr.suggested_questions]
                  ELSE [result |-> pgr.result, query_text |-> pgr.query_text,
                        suggested_questions |-> pgr.suggested_questions]
    /\ pc' = IF caller = "genie_query" THEN "gq_client" ELSE "done"
    /\ UNCHANGED <<query_result, op, conversation_id, message_id, tries, exc,
                   now, start_time, attempt, complete_message, messages,
                   full_message, ai, result, query_text, suggested_questions,
                   pgr, requested, polls, served, fetches>>
    /\ UNCHANGED <<raised, genieQueryVars, feedbackVars, replayVars, serviceVars, orderVars, authVars, pairVars>>

\* the except clauses, lines 331-332 and 402-410
Except ==
    /\ pc = "except"
    /\ outcome' = IF op = "new"
                  THEN [conversation_id |-> None, result |-> NewErrorText(exc),
                        query_text |-> None, suggested_questions |-> List(<<>>)]
                  ELSE [result |-> ContinueErrorText(exc), query_text |-> None,
                        suggested_questions |-> List(<<>>)]
    /\ pc' = IF caller = "genie_query" THEN "gq_client" ELSE "done"
    /\ UNCHANGED <<query_result, op, conversation_id, message_id, tries, exc,
                   now, start_time, attempt, complete_message, messages,
                   full_message, ai, result, query_text, suggested_questions,
                   pgr, requested, polls, served, fetches>>
    /\ UNCHANGED <<raised, genieQueryVars, feedbackVars, replayVars, serviceVars, orderVars, authVars, pairVars>>


-----------------------------------------------------------------------------
(* send_feedback and GenieClient.send_message_feedback: lines 601-647 and  *)
(* 197-231.                                                                *)

True == [type |-> "bool", bool |-> TRUE]
False == [type |-> "bool", bool |-> FALSE]

\* values of the feedback_type argument
FeedbackTypes == {"positive", "negative", "Positive", ""}

\* status codes, as their digits, and bodies the service answers the POST with
FeedbackResponses ==
    [status : {<<"2", "0", "0">>, <<"2", "0", "4">>, <<"4", "0", "0">>,
               <<"4", "0", "4">>, <<"5", "0", "0">>},
     text : {"", "{}", "OK"}]

\* the rating with every value but "negative" taken as positive
RatingValueUnlessNegative(ft) == IF ft = "negative" THEN "NEGATIVE" ELSE "POSITIVE"

\* line 214
RatingValue(ft) == IF ft = "positive" THEN "POSITIVE" ELSE "NEGATIVE"

\* response.raise_for_status() raises for the status codes 400 to 599
RaisesForStatus(status) == status[1] \in {"4", "5"}

\* response.json() raises for a body that is not JSON
JsonRaises(text) == text \notin {"{}"}

JSONDecodeError == [type |-> "JSONDecodeError", str |-> <<"Expecting value: line 1 column 1 (char 0)">>]

\* the parameters and locals an action of send_feedback leaves alone
feedbackFrame == <<tries, now, start_time, attempt, complete_message, messages,
                   full_message, ai, result, query_text, suggested_questions,
                   query_result, pgr, requested, polls, served, fetches, raised,
                   genieQueryVars, replayVars, serviceVars, orderVars, authVars, pairVars>>

CallFeedback(ft) ==
    /\ pc = "idle"
    /\ op' = "feedback"
    /\ conversation_id' = Str("c1")
    /\ message_id' = Str("m2")
    /\ feedback_type' = ft
    /\ pc' = "fb_client"
    /\ UNCHANGED <<exc, outcome, posted, feedbackFrame>>

\* lines 614-617: GenieClient(...) inside the try block
FBClientOk ==
    /\ pc = "fb_client"
    /\ pc' = "fb_headers"
    /\ UNCHANGED <<op, conversation_id, message_id, exc, outcome, feedbackVars, feedbackFrame>>

FBClientFail ==
    /\ pc = "fb_client"
    /\ exc' = CredentialError
    /\ pc' = "fb_except"
    /\ UNCHANGED <<op, conversation_id, message_id, outcome, feedbackVars, feedbackFrame>>

\* line 210: update_headers
FBHeadersOk ==
    /\ pc = "fb_headers"
    /\ pc' = "fb_post"
    /\ UNCHANGED <<op, conversation_id, message_id, exc, outcome, feedbackVars, feedbackFrame>>

FBHeadersFail ==
    /\ pc = "fb_headers"
    /\ exc' = CredentialError
    /\ pc' = "fb_except"
    /\ UNCHANGED <<op, conversation_id, message_id, outcome, feedbackVars, feedbackFrame>>

\* line 222: the POST gets no answer
FBPostFail ==
    /\ pc = "fb_post"
    /\ posted' = Append(posted, [status |-> <<>>, text |-> "", rating |-> RatingValue(feedback_type)])
    /\ exc' = ConnectionError
    /\ pc' = "fb_except"
    /\ UNCHANGED <<op, conversation_id, message_id, outcome, feedback_type, feedbackFrame>>

\* lines 222-231 and 623-626: the POST is answered
FBPostAnswered(response) ==
    /\ pc = "fb_post"
    /\ posted' = Append(posted, [status |-> response.status,
                                 text |-> response.text, rating |-> RatingValue(feedback_type)])
    /\ IF RaisesForStatus(response.status)
       THEN /\ exc' = HTTPError(response.status, "Error", <<"https://host/feedback">>)
            /\ pc' = "fb_except"
            /\ UNCHANGED outcome
       ELSE IF response.text # "" /\ JsonRaises(response.text)
       THEN /\ exc' = JSONDecodeError
            /\ pc' = "fb_except"
            /\ UNCHANGED outcome
       ELSE /\ outcome' = True
            /\ pc' = "done"
            /\ UNCHANGED exc
    /\ UNCHANGED <<op, conversation_id, message_id, feedback_type, feedbackFrame>>

\* the except clauses of lines 628-647
FBExcept ==
    /\ pc = "fb_except"
    /\ outcome' = False
    /\ pc' = "done"
    /\ UNCHANGED <<op, conversation_id, message_id, exc, feedbackVars, feedbackFrame>>

-----------------------------------------------------------------------------
(* GenieClient.execute_query and GenieClient.get_space_details, called on  *)
(* their own: lines 156-195. What they raise goes to their caller.         *)

DirectOperations == {"execute_query", "get_space_details"}

\* bodies the two endpoints answer with
DirectResponses ==
    { EmptyDict, [statement_response |-> EmptyDict], [title |-> Str("Space")] }

CallDirect(operation) ==
    /\ pc = "idle"
    /\ op' = operation
    /\ pc' = operation
    /\ UNCHANGED <<tries, exc, askVars, raised, genieQueryVars, feedbackVars, replayVars, serviceVars, orderVars, authVars, pairVars>>

\* an attempt fails
DirectFail(e) ==
    /\ pc \in DirectOperations
    /\ requested' = requested \cup {pc}
    /\ AttemptFailedTo(e, "raised")
    /\ UNCHANGED <<op, conversation_id, message_id, now, start_time, attempt,
                   complete_message, messages, full_message, ai, result,
                   query_text, suggested_questions, query_result, pgr, outcome,
                   polls, served, fetches>>
    /\ UNCHANGED <<genieQueryVars, feedbackVars, replayVars, serviceVars, orderVars, authVars, pairVars>>

\* an attempt answers: return response.json()
DirectOk(response) ==
    /\ pc \in DirectOperations
    /\ requested' = requested \cup {pc}
    /\ outcome' = response
    /\ raised' = NoExc
    /\ pc' = "done"
    /\ UNCHANGED <<op, conversation_id, message_id, tries, exc, now, start_time,
                   attempt, complete_message, messages, full_message, ai,
                   result, query_text, suggested_questions, query_result, pgr,
                   polls, served, fetches>>
    /\ UNCHANGED <<genieQueryVars, feedbackVars, replayVars, serviceVars, orderVars, authVars, pairVars>>

-----------------------------------------------------------------------------
(* genie_query: lines 649-690.                                             *)

\* lines 678-684: the message_id of the last entry whose role is not "USER",
\* looking from entry i backwards
RECURSIVE LastNonUser(_, _)
LastNonUser(msgs, i) ==
    IF i = 0 THEN None
    ELSE IF Get(msgs[i], "role") # Str("USER") THEN Get(msgs[i], "message_id")
    ELSE LastNonUser(msgs, i - 1)

\* bot_message_id of line 686
BotMessageId(msgs) == LastNonUser(msgs, Len(msgs))

\* line 666: start_new_conversation is called inside the try block
CallGenieQuery ==
    /\ pc = "idle"
    /\ caller' = "genie_query"
    /\ op' = "new"
    /\ pc' = "client"
    /\ UNCHANGED <<tries, exc, askVars, raised, gq_messages, gq, feedbackVars, replayVars, serviceVars>>
    /\ asked' = asked + 1
    /\ log' = log
    /\ UNCHANGED <<authVars, pairVars>>

\* lines 670-673: GenieClient(...)
GQClientOk ==
    /\ pc = "gq_client"
    /\ pc' = "gq_list"
    /\ tries' = 0
    /\ UNCHANGED <<op, exc, askVars, raised, genieQueryVars, feedbackVars, replayVars, serviceVars, orderVars, authVars, pairVars>>

GQClientFail ==
    /\ pc = "gq_client"
    /\ exc' = CredentialError
    /\ pc' = "gq_except"
    /\ UNCHANGED <<op, tries, askVars, raised, genieQueryVars, feedbackVars, replayVars, serviceVars, orderVars, authVars, pairVars>>

\* line 674: an attempt of list_conversation_messages(conversation_id) fails
GQListFail(e) ==
    /\ pc = "gq_list"
    /\ requested' = requested \cup {"list_conversation_messages"}
    /\ AttemptFailedTo(e, "gq_except")
    /\ UNCHANGED <<op, conversation_id, message_id, now, start_time, attempt,
                   complete_message, messages, full_message, ai, result,
                   query_text, suggested_questions, query_result, pgr, outcome,
                   polls, served, fetches>>
    /\ UNCHANGED <<genieQueryVars, feedbackVars, replayVars, serviceVars, orderVars, authVars, pairVars>>

\* lines 674-686: the attempt answers, and genie_query returns
GQListOk(messages_response) ==
    /\ pc = "gq_list"
    /\ requested' = requested \cup {"list_conversation_messages"}
    /\ raised' = NoExc
    /\ gq_messages' = GetDefault(messages_response, "messages", <<>>)
    /\ gq' = [conversation_id |-> outcome.conversation_id, message_id |-> BotMessageId(gq_messages'),
              result |-> outcome.result,
              query_text |-> outcome.query_text,
              suggested_questions |-> outcome.suggested_questions]
    /\ pc' = "done"
    /\ UNCHANGED <<op, conversation_id, message_id, tries, exc, now, start_time,
                   attempt, complete_message, messages, full_message, ai,
                   result, query_text, suggested_questions, query_result, pgr,
                   outcome, polls, served, fetches>>
    /\ UNCHANGED <<caller, feedbackVars, replayVars, serviceVars, orderVars, authVars, pairVars>>

\* lines 688-690
GQExcept ==
    /\ pc = "gq_except"
    /\ gq' = [conversation_id |-> None, message_id |-> None,
              result |-> NewErrorText(exc), query_text |-> None,
              suggested_questions |-> List(<<>>)]
    /\ pc' = "done"
    /\ UNCHANGED <<op, tries, exc, askVars, raised, caller, gq_messages,
                   feedbackVars, replayVars, serviceVars, orderVars, authVars, pairVars>>

-----------------------------------------------------------------------------
(* The requests of two flows, attempt by attempt: update_headers, then the *)
(* request with self.headers. Every operation has this shape (lines 55-63, *)
(* 75-83, 95-103, 114-125, 136-144, 166-174, 185-196, 210-225).            *)

\* the variables of the asks, which the steps below leave alone
sequentialVars == <<pc, op, tries, exc, askVars, raised, genieQueryVars,
                    feedbackVars, replayVars, serviceVars, orderVars,
                    pairVars>>

\* a retry that goes straight to the request
RetryFromRequest == "request"

\* the decorator calls the operation again: its body starts with
\* update_headers
RetryFrom == "update_headers"

\* GenieClient(...): __init__ calls update_headers, line 34
NewClient(p) ==
    /\ calls[p].pc = "idle"
    /\ \E t \in GetToken :
          /\ token_minter' = t
          /\ headers' = [headers EXCEPT ![HolderOf(p)] = t]
          /\ calls' = [calls EXCEPT ![p].pc = "ready", ![p].acquired = t,
                                    ![p].fresh = TRUE]
    /\ UNCHANGED <<sent, sequentialVars>>

\* get_token raises in __init__
NewClientFail(p) ==
    /\ calls[p].pc = "idle"
    /\ calls' = [calls EXCEPT ![p].pc = "raised"]
    /\ UNCHANGED <<token_minter, headers, sent, sequentialVars>>

\* the flow calls an operation of its client
CallOperation(p, operation) ==
    /\ calls[p].pc = "ready"
    /\ calls' = [calls EXCEPT ![p].pc = "update_headers",
                              ![p].operation = operation,
                              ![p].tries = 0]
    /\ UNCHANGED <<token_minter, headers, sent, sequentialVars>>

\* self.update_headers(), lines 38-43: the first statement of the operation
UpdateHeaders(p) ==
    /\ calls[p].pc = "update_headers"
    /\ \E t \in GetToken :
          /\ token_minter' = t
          /\ headers' = [headers EXCEPT ![HolderOf(p)] = t]
          /\ calls' = [calls EXCEPT ![p].pc = "request", ![p].acquired = t,
                                    ![p].fresh = TRUE]
    /\ UNCHANGED <<sent, sequentialVars>>

\* where an attempt that raised leaves the call of flow p
AfterFailure(p) ==
    IF Retried(calls[p].operation) /\ calls[p].tries + 1 < max_tries
    THEN [calls[p] EXCEPT !.pc = RetryFrom, !.tries = calls[p].tries + 1, !.fresh = FALSE]
    ELSE [calls[p] EXCEPT !.pc = "raised", !.tries = calls[p].tries + 1, !.fresh = FALSE]

\* get_token raises inside the operation: the attempt fails before a request
UpdateHeadersFail(p) ==
    /\ calls[p].pc = "update_headers"
    /\ calls' = [calls EXCEPT ![p] = AfterFailure(p)]
    /\ UNCHANGED <<token_minter, headers, sent, sequentialVars>>

\* the request as it goes out: requests.get / requests.post with
\* headers=self.headers
Outgoing(p) ==
    [operation |-> calls[p].operation,
     acquired |-> calls[p].acquired,
     token |-> headers[HolderOf(p)],
     preceded |-> calls[p].fresh]

\* the request is answered and the operation returns
RequestAnswered(p) ==
    /\ calls[p].pc = "request"
    /\ sent' = [sent EXCEPT ![p] = Outgoing(p)]
    /\ calls' = [calls EXCEPT ![p].pc = "returned", ![p].fresh = FALSE]
    /\ UNCHANGED <<token_minter, headers, sequentialVars>>

\* the request raises, or raise_for_status does
RequestFailed(p) ==
    /\ calls[p].pc = "request"
    /\ sent' = [sent EXCEPT ![p] = Outgoing(p)]
    /\ calls' = [calls EXCEPT ![p] = AfterFailure(p)]
    /\ UNCHANGED <<token_minter, headers, sequentialVars>>

-----------------------------------------------------------------------------
(* Two asks at the same time, each in a call of its own: the locals of a   *)
(* call and the client it builds (lines 278-281) belong to the call.       *)

\* the locals of a call of start_new_conversation before its first statement
Fresh ==
    [pc |-> "idle", op |-> "none", conversation_id |-> None,
     message_id |-> None, tries |-> 0, exc |-> NoExc, now |-> 0,
     start_time |-> 0, attempt |-> 0, complete_message |-> EmptyDict,
     messages |-> <<>>, full_message |-> EmptyDict, ai |-> 0,
     result |-> None, query_text |-> None,
     suggested_questions |-> List(<<>>), query_result |-> None,
     pgr |-> NoOutcome, outcome |-> NoOutcome, requested |-> {},
     polls |-> 0, served |-> <<>>, fetches |-> {}, raised |-> NoExc,
     accepted |-> 0, asked |-> 0, log |-> <<>>]

\* the locals of the call that is running
Registers ==
    [pc |-> pc, op |-> op, conversation_id |-> conversation_id,
     message_id |-> message_id, tries |-> tries, exc |-> exc,
     now |-> now, start_time |-> start_time, attempt |-> attempt,
     complete_message |-> complete_message, messages |-> messages,
     full_message |-> full_message, ai |-> ai, result |-> result,
     query_text |-> query_text,
     suggested_questions |-> suggested_questions,
     query_result |-> query_result, pgr |-> pgr, outcome |-> outcome,
     requested |-> requested, polls |-> polls, served |-> served,
     fetches |-> fetches, raised |-> raised, accepted |-> accepted,
     asked |-> asked, log |-> log]

\* the module-level state that an ask writes and another ask reads, with the
\* suggested questions kept in the module
SharedStateSuggestions == {"suggested_questions"}

\* the module-level state that an ask writes and another ask reads: lines
\* 12-27 hold the logger, the environment values and token_minter, and no
\* ask assigns to any of them
SharedState == {}

\* what the service answers one conversation with: the operation of which
\* every attempt fails, the status of the message, the message list and the
\* query result
Script(fails, status, list, raw) ==
    [status |-> status, raw |-> raw, fails |-> fails, list |-> list]

NoScript == Script("none", "COMPLETED", EmptyDict, EmptyDict)

TextList ==
    [messages |-> <<UserMessage("m1"), BotMessage("m2", <<TextAtt("a1", Str("T1"))>>)>>]

QueryList ==
    [messages |-> <<UserMessage("m1"),
                    BotMessage("m2", <<SuggestedAtt("a8", Questions(<<"A", "B">>)),
                                       QueryAtt("a5", "SELECT 1")>>)>>]

Rows == [statement_response |-> [result |-> [data_array |-> DataArray(1, 1)]]]

Scripts ==
    { Script("none", "COMPLETED", TextList, EmptyDict),
      Script("none", "COMPLETED", QueryList, Rows),
      Script("none", "FAILED", QueryList, EmptyDict),
      Script("none", "EXECUTING_QUERY", TextList, EmptyDict),
      Script("client", "COMPLETED", TextList, EmptyDict),
      Script("start_conversation", "COMPLETED", TextList, EmptyDict),
      Script("get_query_result", "COMPLETED", QueryList, Rows) }

\* the flows ask on different conversations
StartOf(p) ==
    [conversation_id |-> Str(IF p = 1 THEN "c1" ELSE "c2"), message_id |-> Str("m1")]

\* every attempt of the operation fails in the conversation of the running flow
Fails(operation) == script[cur].fails = operation

\* the call has returned or raised
Finished(at) == at \in {"done", "raised"}

\* what a call gave back: where it ended, the value returned, the exception
NoVerdict == [pc |-> "idle", exc |-> NoExc, outcome |-> NoOutcome]
Verdict == [pc |-> pc, exc |-> exc, outcome |-> outcome]
ParkedVerdict == [pc |-> parked.pc, exc |-> parked.exc, outcome |-> parked.outcome]

\* the flow that ran alone has finished: what it gave back is kept, and the
\* next run starts with fresh calls
AloneDone ==
    /\ mode = "alone"
    /\ Finished(pc)
    /\ alone' = [alone EXCEPT ![cur] = Verdict]
    /\ IF cur = 1 THEN cur' = 2 /\ mode' = mode ELSE cur' = 1 /\ mode' = "together"
    /\ pc' = Fresh.pc
    /\ op' = Fresh.op
    /\ conversation_id' = Fresh.conversation_id
    /\ message_id' = Fresh.message_id
    /\ tries' = Fresh.tries
    /\ exc' = Fresh.exc
    /\ now' = Fresh.now
    /\ start_time' = Fresh.start_time
    /\ attempt' = Fresh.attempt
    /\ complete_message' = Fresh.complete_message
    /\ messages' = Fresh.messages
    /\ full_message' = Fresh.full_message
    /\ ai' = Fresh.ai
    /\ result' = Fresh.result
    /\ query_text' = Fresh.query_text
    /\ suggested_questions' = Fresh.suggested_questions
    /\ query_result' = Fresh.query_result
    /\ pgr' = Fresh.pgr
    /\ outcome' = Fresh.outcome
    /\ requested' = Fresh.requested
    /\ polls' = Fresh.polls
    /\ served' = Fresh.served
    /\ fetches' = Fresh.fetches
    /\ raised' = Fresh.raised
    /\ accepted' = Fresh.accepted
    /\ asked' = Fresh.asked
    /\ log' = Fresh.log
    /\ UNCHANGED <<parked, script, genieQueryVars, feedbackVars, replayVars, authVars>>

\* the scheduler takes the running flow off and puts the other one on
Switch ==
    /\ mode = "together"
    /\ ~Finished(parked.pc)
    /\ cur' = 3 - cur
    /\ parked' = Registers
    /\ pc' = IF "pc" \in SharedState THEN pc ELSE parked.pc
    /\ op' = IF "op" \in SharedState THEN op ELSE parked.op
    /\ conversation_id' = IF "conversation_id" \in SharedState THEN conversation_id ELSE parked.conversation_id
    /\ message_id' = IF "message_id" \in SharedState THEN message_id ELSE parked.message_id
    /\ tries' = IF "tries" \in SharedState THEN tries ELSE parked.tries
    /\ exc' = IF "exc" \in SharedState THEN exc ELSE parked.exc
    /\ now' = IF "now" \in SharedState THEN now ELSE parked.now
    /\ start_time' = IF "start_time" \in SharedState THEN start_time ELSE parked.start_time
    /\ attempt' = IF "attempt" \in SharedState THEN attempt ELSE parked.attempt
    /\ complete_message' = IF "complete_message" \in SharedState THEN complete_message ELSE parked.complete_message
    /\ messages' = IF "messages" \in SharedState THEN messages ELSE parked.messages
    /\ full_message' = IF "full_message" \in SharedState THEN full_message ELSE parked.full_message
    /\ ai' = IF "ai" \in SharedState THEN ai ELSE parked.ai
    /\ result' = IF "result" \in SharedState THEN result ELSE parked.result
    /\ query_text' = IF "query_text" \in SharedState THEN query_text ELSE parked.query_text
    /\ suggested_questions' = IF "suggested_questions" \in SharedState THEN suggested_questions ELSE parked.suggested_questions
    /\ query_result' = IF "query_result" \in SharedState THEN query_result ELSE parked.query_result
    /\ pgr' = IF "pgr" \in SharedState THEN pgr ELSE parked.pgr
    /\ outcome' = IF "outcome" \in SharedState THEN outcome ELSE parked.outcome
    /\ requested' = IF "requested" \in SharedState THEN requested ELSE parked.requested
    /\ polls' = IF "polls" \in SharedState THEN polls ELSE parked.polls
    /\ served' = IF "served" \in SharedState THEN served ELSE parked.served
    /\ fetches' = IF "fetches" \in SharedState THEN fetches ELSE parked.fetches
    /\ raised' = IF "raised" \in SharedState THEN raised ELSE parked.raised
    /\ accepted' = IF "accepted" \in SharedState THEN accepted ELSE parked.accepted
    /\ asked' = IF "asked" \in SharedState THEN asked ELSE parked.asked
    /\ log' = IF "log" \in SharedState THEN log ELSE parked.log
    /\ UNCHANGED <<script, alone, mode, genieQueryVars, feedbackVars, replayVars, authVars>>

-----------------------------------------------------------------------------
(* Specifications.                                                         *)

\* the state before an ask is called
Init ==
    /\ pc = "idle"
    /\ op = "none"
    /\ conversation_id = None
    /\ message_id = None
    /\ tries = 0
    /\ exc = NoExc
    /\ now = 0
    /\ start_time = 0
    /\ attempt = 0
    /\ complete_message = EmptyDict
    /\ messages = <<>>
    /\ full_message = EmptyDict
    /\ ai = 0
    /\ result = None
    /\ query_text = None
    /\ suggested_questions = List(<<>>)
    /\ query_result = None
    /\ pgr = NoOutcome
    /\ outcome = NoOutcome
    /\ requested = {}
    /\ polls = 0
    /\ served = <<>>
    /\ fetches = {}
    /\ raised = NoExc
    /\ caller = "none"
    /\ gq_messages = <<>>
    /\ gq = NoOutcome
    /\ feedback_type = "none"
    /\ posted = <<>>
    /\ first = NoOutcome
    /\ answers = EmptyDict
    /\ accepted = 0
    /\ asked = 0
    /\ log = <<>>
    /\ token_minter = NoToken
    /\ headers = [h \in Flows |-> NoToken]
    /\ calls = [p \in Flows |-> NoCall]
    /\ sent = [p \in Flows |-> NoRequest]
    /\ cur = 1
    /\ parked = Fresh
    /\ script = [p \in Flows |-> NoScript]
    /\ alone = [p \in Flows |-> NoVerdict]
    /\ mode = "alone"

Next ==
    \/ CallNew
    \/ CallContinue
    \/ ClientOk
    \/ ClientFail
    \/ \E e \in Errors : StartConversationFail(e)
    \/ \E response \in StartResponses : StartConversationOk(response)
    \/ \E e \in Errors : SendMessageFail(e)
    \/ \E response \in SendResponses : SendMessageOk(response)
    \/ WaitEnter
    \/ WaitCheck
    \/ \E e \in Errors, d \in 0..MaxLatency : GetMessageFail(e, d)
    \/ \E s \in Statuses, d \in 0..MaxLatency : GetMessageOk(PolledMessage(s), d)
    \/ Sleep
    \/ \E e \in Errors : ListMessagesFail(e)
    \/ \E response \in ListResponses : ListMessagesOk(response)
    \/ Resolve
    \/ PGRCollect
    \/ PGRScan
    \/ \E e \in Errors : GetQueryResultFail(e)
    \/ \E raw \in FlowQueryResponses : GetQueryResultOk(raw)
    \/ PGRReturn
    \/ Return
    \/ Except
    \/ \E ft \in FeedbackTypes : CallFeedback(ft)
    \/ FBClientOk
    \/ FBClientFail
    \/ FBHeadersOk
    \/ FBHeadersFail
    \/ FBPostFail
    \/ \E response \in FeedbackResponses : FBPostAnswered(response)
    \/ FBExcept
    \/ \E operation \in DirectOperations : CallDirect(operation)
    \/ \E e \in Errors : DirectFail(e)
    \/ \E response \in DirectResponses : DirectOk(response)

Spec == Init /\ [][Next]_vars

\* one call of genie_query
NextQuery ==
    \/ CallGenieQuery
    \/ ClientOk
    \/ ClientFail
    \/ \E e \in Errors : StartConversationFail(e)
    \/ \E response \in StartResponses : StartConversationOk(response)
    \/ WaitEnter
    \/ WaitCheck
    \/ \E e \in Errors, d \in 0..MaxLatency : GetMessageFail(e, d)
    \/ \E s \in Statuses, d \in 0..MaxLatency : GetMessageOk(PolledMessage(s), d)
    \/ Sleep
    \/ \E e \in Errors : ListMessagesFail(e)
    \/ \E response \in ListResponses : ListMessagesOk(response)
    \/ Resolve
    \/ PGRCollect
    \/ PGRScan
    \/ \E e \in Errors : GetQueryResultFail(e)
    \/ \E raw \in FlowQueryResponses : GetQueryResultOk(raw)
    \/ PGRReturn
    \/ Return
    \/ Except
    \/ GQClientOk
    \/ GQClientFail
    \/ \E e \in Errors : GQListFail(e)
    \/ \E response \in ListResponses : GQListOk(response)
    \/ GQExcept

SpecQuery == Init /\ [][NextQuery]_vars

\* the submission of one ask, with the attempts whose response is lost
NextSubmit ==
    \/ CallNew
    \/ CallContinue
    \/ ClientOk
    \/ ClientFail
    \/ \E e \in Errors : StartConversationFail(e)
    \/ StartConversationLost
    \/ \E response \in StartResponses : StartConversationOk(response)
    \/ \E e \in Errors : SendMessageFail(e)
    \/ SendMessageLost
    \/ \E response \in SendResponses : SendMessageOk(response)
    \/ Except

SpecSubmit == Init /\ [][NextSubmit]_vars

\* the conversation the ask that has returned was about
AskedConversation ==
    IF op = "new" THEN outcome.conversation_id ELSE conversation_id

\* the ask has returned and the caller asks the next question of the same
\* conversation: continue_conversation(conversation_id, question) is entered
\* with fresh locals; the histories of the ask start again, the log runs on
CallNext ==
    /\ pc = "done"
    /\ caller = "none"
    /\ op \in {"new", "continue"}
    /\ asked < MaxAsks
    /\ AskedConversation # None
    /\ op' = "continue"
    /\ conversation_id' = AskedConversation
    /\ pc' = "client"
    /\ asked' = asked + 1
    /\ message_id' = None
    /\ tries' = 0
    /\ exc' = NoExc
    /\ raised' = NoExc
    /\ now' = 0
    /\ start_time' = 0
    /\ attempt' = 0
    /\ complete_message' = EmptyDict
    /\ messages' = <<>>
    /\ full_message' = EmptyDict
    /\ ai' = 0
    /\ result' = None
    /\ query_text' = None
    /\ suggested_questions' = List(<<>>)
    /\ query_result' = None
    /\ pgr' = NoOutcome
    /\ outcome' = NoOutcome
    /\ requested' = {}
    /\ polls' = 0
    /\ served' = <<>>
    /\ fetches' = {}
    /\ accepted' = 0
    /\ UNCHANGED <<log, genieQueryVars, feedbackVars, replayVars>>
    /\ UNCHANGED <<authVars, pairVars>>

\* what the service answers the asks of a sequence with
SeqErrors == {ConnectionError}
SeqStatuses == {"EXECUTING_QUERY", "COMPLETED", "FAILED"}
SeqLists ==
    { [messages |-> <<UserMessage("m1"), BotMessage("m2", atts)>>] :
      atts \in { <<TextAtt("a1", Str("T1"))>>,
                 <<QueryAtt("a5", "SELECT 1"), TextAtt("a1", Str("T1"))>> } }

NextSeq ==
    \/ CallNew
    \/ CallContinue
    \/ CallNext
    \/ ClientOk
    \/ ClientFail
    \/ \E e \in SeqErrors : StartConversationFail(e)
    \/ \E response \in StartResponses : StartConversationOk(response)
    \/ \E e \in SeqErrors : SendMessageFail(e)
    \/ \E response \in SendResponses : SendMessageOk(response)
    \/ WaitEnter
    \/ WaitCheck
    \/ \E e \in SeqErrors, d \in 0..MaxLatency : GetMessageFail(e, d)
    \/ \E s \in SeqStatuses, d \in 0..MaxLatency : GetMessageOk(PolledMessage(s), d)
    \/ Sleep
    \/ \E e \in SeqErrors : ListMessagesFail(e)
    \/ \E response \in SeqLists : ListMessagesOk(response)
    \/ Resolve
    \/ PGRCollect
    \/ PGRScan
    \/ \E e \in SeqErrors : GetQueryResultFail(e)
    \/ \E raw \in FlowQueryResponses : GetQueryResultOk(raw)
    \/ PGRReturn
    \/ Return
    \/ Except

SpecSeq == Init /\ [][NextSeq]_vars

\* two flows, each building a client and calling one operation of it
NextAuth ==
    \/ \E p \in Flows : NewClient(p)
    \/ \E p \in Flows : NewClientFail(p)
    \/ \E p \in Flows, operation \in Operations : CallOperation(p, operation)
    \/ \E p \in Flows : UpdateHeaders(p)
    \/ \E p \in Flows : UpdateHeadersFail(p)
    \/ \E p \in Flows : RequestAnswered(p)
    \/ \E p \in Flows : RequestFailed(p)

SpecAuth == Init /\ [][NextAuth]_vars

\* each flow alone, then the two together, with the same answers
InitPair ==
    /\ pc = "idle"
    /\ op = "none"
    /\ conversation_id = None
    /\ message_id = None
    /\ tries = 0
    /\ exc = NoExc
    /\ now = 0
    /\ start_time = 0
    /\ attempt = 0
    /\ complete_message = EmptyDict
    /\ messages = <<>>
    /\ full_message = EmptyDict
    /\ ai = 0
    /\ result = None
    /\ query_text = None
    /\ suggested_questions = List(<<>>)
    /\ query_result = None
    /\ pgr = NoOutcome
    /\ outcome = NoOutcome
    /\ requested = {}
    /\ polls = 0
    /\ served = <<>>
    /\ fetches = {}
    /\ raised = NoExc
    /\ caller = "none"
    /\ gq_messages = <<>>
    /\ gq = NoOutcome
    /\ feedback_type = "none"
    /\ posted = <<>>
    /\ first = NoOutcome
    /\ answers = EmptyDict
    /\ accepted = 0
    /\ asked = 0
    /\ log = <<>>
    /\ token_minter = NoToken
    /\ headers = [h \in Flows |-> NoToken]
    /\ calls = [p \in Flows |-> NoCall]
    /\ sent = [p \in Flows |-> NoRequest]
    /\ cur = 1
    /\ parked = Fresh
    /\ script \in [Flows -> Scripts]
    /\ alone = [p \in Flows |-> NoVerdict]
    /\ mode = "alone"

NextPair ==
    \/ CallNew
    \/ ~Fails("client") /\ ClientOk
    \/ Fails("client") /\ ClientFail
    \/ ~Fails("start_conversation") /\ StartConversationOk(StartOf(cur))
    \/ Fails("start_conversation") /\ StartConversationFail(ConnectionError)
    \/ WaitEnter
    \/ WaitCheck
    \/ GetMessageOk(PolledMessage(script[cur].status), 0)
    \/ Sleep
    \/ ListMessagesOk(script[cur].list)
    \/ Resolve
    \/ PGRCollect
    \/ PGRScan
    \/ ~Fails("get_query_result") /\ GetQueryResultOk(script[cur].raw)
    \/ Fails("get_query_result") /\ GetQueryResultFail(ConnectionError)
    \/ PGRReturn
    \/ Return
    \/ Except
    \/ AloneDone
    \/ Switch

SpecPair == InitPair /\ [][NextPair]_vars

\* the resolver, entered with every message list of at most MaxMsgs entries
InitResolve ==
    /\ pc = "resolve"
    /\ op \in {"new", "continue"}
    /\ conversation_id = Str("c1")
    /\ message_id \in {Str("m1"), None}
    /\ tries = 0
    /\ exc = NoExc
    /\ now = 0
    /\ start_time = 0
    /\ attempt = 1
    /\ complete_message = PolledMessage("COMPLETED")
    /\ messages \in SeqUpTo(ResolverEntries, MaxMsgs)
    /\ full_message = EmptyDict
    /\ ai = 0
    /\ result = None
    /\ query_text = None
    /\ suggested_questions = List(<<>>)
    /\ query_result = None
    /\ pgr = NoOutcome
    /\ outcome = NoOutcome
    /\ requested = {}
    /\ polls = 1
    /\ served = <<Str("COMPLETED")>>
    /\ fetches = {}
    /\ raised = NoExc
    /\ caller = "none"
    /\ gq_messages = <<>>
    /\ gq = NoOutcome
    /\ feedback_type = "none"
    /\ posted = <<>>
    /\ first = NoOutcome
    /\ answers = EmptyDict
    /\ accepted = 0
    /\ asked = 0
    /\ log = <<>>
    /\ token_minter = NoToken
    /\ headers = [h \in Flows |-> NoToken]
    /\ calls = [p \in Flows |-> NoCall]
    /\ sent = [p \in Flows |-> NoRequest]
    /\ cur = 1
    /\ parked = Fresh
    /\ script = [p \in Flows |-> NoScript]
    /\ alone = [p \in Flows |-> NoVerdict]
    /\ mode = "alone"

NextResolve == Resolve

SpecResolve == InitResolve /\ [][NextResolve]_vars

\* process_genie_response, entered with every message of NormMessages
InitNorm ==
    /\ pc = "pgr_collect"
    /\ op = "new"
    /\ conversation_id = Str("c1")
    /\ message_id = Str("m1")
    /\ tries = 0
    /\ exc = NoExc
    /\ now = 0
    /\ start_time = 0
    /\ attempt = 1
    /\ complete_message = PolledMessage("COMPLETED")
    /\ messages = <<>>
    /\ full_message \in NormMessages
    /\ ai = 0
    /\ result = None
    /\ query_text = None
    /\ suggested_questions = List(<<>>)
    /\ query_result = None
    /\ pgr = NoOutcome
    /\ outcome = NoOutcome
    /\ requested = {}
    /\ polls = 1
    /\ served = <<Str("COMPLETED")>>
    /\ fetches = {}
    /\ raised = NoExc
    /\ caller = "none"
    /\ gq_messages = <<>>
    /\ gq = NoOutcome
    /\ feedback_type = "none"
    /\ posted = <<>>
    /\ first = NoOutcome
    /\ answers = EmptyDict
    /\ accepted = 0
    /\ asked = 0
    /\ log = <<>>
    /\ token_minter = NoToken
    /\ headers = [h \in Flows |-> NoToken]
    /\ calls = [p \in Flows |-> NoCall]
    /\ sent = [p \in Flows |-> NoRequest]
    /\ cur = 1
    /\ parked = Fresh
    /\ script = [p \in Flows |-> NoScript]
    /\ alone = [p \in Flows |-> NoVerdict]
    /\ mode = "alone"

\* what an attempt of get_query_result raises where process_genie_response
\* is run alone: a transport error, an HTTP error
NormErrors == {ConnectionError, HTTPError500}

NextNorm ==
    \/ PGRCollect
    \/ PGRScan
    \/ \E e \in NormErrors : GetQueryResultFail(e)
    \/ \E raw \in QueryResponses : GetQueryResultOk(raw)
    \/ PGRReturn

SpecNorm == InitNorm /\ [][NextNorm]_vars

(* The except clauses of the asks, entered with every failure a call of    *)
(* the try block can raise.                                                *)

\* conversation ids: one of them has the digits 429 in it
ConversationIds == {Str("c1"), StrCat(<<"c", "4", "2", "9">>)}

\* the url of a request of the try block, lines 58, 78, 98, 120 and 139
Url(endpoint, cid) ==
    LET base == <<"https://host/api/2.0/genie/spaces/space">>
        conv == base \o <<"/conversations/">> \o cid.str
    IN  CASE endpoint = "start_conversation" -> base \o <<"/start-conversation">>
          [] endpoint = "send_message" -> conv \o <<"/messages">>
          [] endpoint = "get_message" -> conv \o <<"/messages/", "m1">>
          [] endpoint = "list_conversation_messages" -> conv \o <<"/messages">>
          [] endpoint = "get_query_result" ->
                 conv \o <<"/messages/", "m1", "/attachments/", "a5", "/query-result">>

\* the requests of an ask
Endpoints(o) ==
    {IF o = "new" THEN "start_conversation" ELSE "send_message",
     "get_message", "list_conversation_messages", "get_query_result"}

\* status lines of the 4xx and 5xx answers of the service
ErrorAnswers ==
    { [status |-> <<"4", "0", "0">>, reason |-> "Bad Request"],
      [status |-> <<"4", "0", "4">>, reason |-> "Not Found"],
      [status |-> <<"4", "0", "4">>, reason |-> "Conversation not found"],
      [status |-> <<"4", "2", "9">>, reason |-> "Too Many Requests"],
      [status |-> <<"5", "0", "0">>, reason |-> "Internal Server Error"] }

\* the HTTPError of raise_for_status with its response attached: str(e) has
\* the status, the reason and the url
HTTPErrorFor(answer, url) ==
    [type |-> "HTTPError", str |-> HTTPError(answer.status, answer.reason, url).str,
     response |-> answer]

\* what the try block of the ask o on the conversation cid can raise
HandledErrors(o, cid) ==
    {CredentialError, ConnectionError, TimeoutError, TypeError, ValueError}
    \cup { HTTPErrorFor(answer, Url(endpoint, cid)) :
           answer \in ErrorAnswers, endpoint \in Endpoints(o) }

InitHandler ==
    /\ pc = "except"
    /\ op \in {"new", "continue"}
    /\ conversation_id \in ConversationIds
    /\ exc \in HandledErrors(op, conversation_id)
    /\ message_id = Str("m1")
    /\ tries = 0
    /\ now = 0
    /\ start_time = 0
    /\ attempt = 1
    /\ complete_message = EmptyDict
    /\ messages = <<>>
    /\ full_message = EmptyDict
    /\ ai = 0
    /\ result = None
    /\ query_text = None
    /\ suggested_questions = List(<<>>)
    /\ query_result = None
    /\ pgr = NoOutcome
    /\ outcome = NoOutcome
    /\ requested = {}
    /\ polls = 0
    /\ served = <<>>
    /\ fetches = {}
    /\ raised = NoExc
    /\ caller = "none"
    /\ gq_messages = <<>>
    /\ gq = NoOutcome
    /\ feedback_type = "none"
    /\ posted = <<>>
    /\ first = NoOutcome
    /\ answers = EmptyDict
    /\ accepted = 0
    /\ asked = 0
    /\ log = <<>>
    /\ token_minter = NoToken
    /\ headers = [h \in Flows |-> NoToken]
    /\ calls = [p \in Flows |-> NoCall]
    /\ sent = [p \in Flows |-> NoRequest]
    /\ cur = 1
    /\ parked = Fresh
    /\ script = [p \in Flows |-> NoScript]
    /\ alone = [p \in Flows |-> NoVerdict]
    /\ mode = "alone"

NextHandler == Except

SpecHandler == InitHandler /\ [][NextHandler]_vars

(* The resolve-and-normalize steps, lines 299-327, run twice on one        *)
(* completed conversation whose query results the service has stored.      *)

\* attachments of the answer message of the conversation
TwiceAtts ==
    { TextAtt("a1", Str("T1")), QueryAtt("a5", "SELECT 1"), QueryAtt("a6", "SELECT 2"),
      SuggestedAtt("a8", Questions(<<"A", "B">>)) }

\* message lists of the conversation
TwiceLists ==
    { <<>>, <<UserMessage("m1")>> }
    \cup { <<UserMessage("m1"), BotMessage("m2", atts)>> : atts \in SeqUpTo(TwiceAtts, MaxAtt) }

\* the query-result body the service has stored for the attachment scanned
StoredAnswer == answers[Get(Attachments(full_message)[ai], "attachment_id").str[1]]

\* an attempt of get_query_result answers with the stored body
GetQueryResultStored ==
    /\ pc = "get_query_result"
    /\ GetQueryResultOk(StoredAnswer)

\* the steps are entered a second time; the locals of the first run are
\* still what it left
RunAgain ==
    /\ pc = "return"
    /\ first = NoOutcome
    /\ first' = pgr
    /\ pc' = "resolve"
    /\ UNCHANGED <<op, tries, exc, askVars, raised, genieQueryVars, feedbackVars, answers,
                   serviceVars, orderVars, authVars, pairVars>>

InitTwice ==
    /\ pc = "resolve"
    /\ op = "new"
    /\ conversation_id = Str("c1")
    /\ message_id = Str("m1")
    /\ tries = 0
    /\ exc = NoExc
    /\ now = 0
    /\ start_time = 0
    /\ attempt = 1
    /\ complete_message = PolledMessage("COMPLETED")
    /\ messages \in TwiceLists
    /\ full_message = EmptyDict
    /\ ai = 0
    /\ result = None
    /\ query_text = None
    /\ suggested_questions = List(<<>>)
    /\ query_result = None
    /\ pgr = NoOutcome
    /\ outcome = NoOutcome
    /\ requested = {}
    /\ polls = 1
    /\ served = <<Str("COMPLETED")>>
    /\ fetches = {}
    /\ raised = NoExc
    /\ caller = "none"
    /\ gq_messages = <<>>
    /\ gq = NoOutcome
    /\ feedback_type = "none"
    /\ posted = <<>>
    /\ first = NoOutcome
    /\ answers \in [{"a5", "a6"} -> FlowQueryResponses]
    /\ accepted = 0
    /\ asked = 0
    /\ log = <<>>
    /\ token_minter = NoToken
    /\ headers = [h \in Flows |-> NoToken]
    /\ calls = [p \in Flows |-> NoCall]
    /\ sent = [p \in Flows |-> NoRequest]
    /\ cur = 1
    /\ parked = Fresh
    /\ script = [p \in Flows |-> NoScript]
    /\ alone = [p \in Flows |-> NoVerdict]
    /\ mode = "alone"

NextTwice ==
    \/ Resolve
    \/ PGRCollect
    \/ PGRScan
    \/ \E e \in NormErrors : GetQueryResultFail(e)
    \/ GetQueryResultStored
    \/ PGRReturn
    \/ RunAgain

SpecTwice == InitTwice /\ [][NextTwice]_vars

-----------------------------------------------------------------------------
(* Claims about the completion poller, checked under Spec.                 *)

\* the statuses the service answered the poller with that are terminal
TerminalServed ==
    { i \in 1..Len(served) : served[i] \in {Str("COMPLETED"), Str("ERROR"), Str("FAILED")} }
NonTerminalServed == (1..Len(served)) \ TerminalServed

InPoller == pc \in {"wait", "wait_check", "get_message", "sleep"}

\* C1: when the service answers N polls with a non-terminal status (a missing
\* status included) and the next one with a terminal status, the poller makes
\* exactly N + 1 calls of get_message, the terminal one last, returns the
\* message of the terminal poll and never polls again.
C1_PollsUntilTerminal ==
    LET N == Cardinality(NonTerminalServed)
    IN  /\ Cardinality(TerminalServed) <= 1
        /\ TerminalServed = {} => polls \in {N, N + 1}
        /\ TerminalServed # {} =>
              /\ TerminalServed = {Len(served)}
              /\ polls = N + 1
              /\ attempt = N + 1
              /\ ~InPoller
              /\ Get(complete_message, "status") = served[Len(served)]

\* reached: two non-terminal polls, one of them without a status, then FAILED
C1_Witness ==
    /\ pc = "done"
    /\ exc = NoExc
    /\ Len(served) = 3
    /\ served[1] = None
    /\ served[2] = Str("EXECUTING_QUERY")
    /\ served[3] = Str("FAILED")
    /\ polls = 3

\* C2: the poller starts a poll only while the elapsed time is below the
\* timeout; once it finds the timeout reached it raises Timeout; after the
\* Timeout no request is made at all: no further poll, no list-messages and
\* no query-result request, and the ask returns its failure text.
C2_TimeoutStopsPolling ==
    /\ [][polls' # polls => now - start_time < timeout]_vars
    /\ [][(pc = "wait_check" /\ now - start_time >= timeout) =>
              (exc' = TimeoutError /\ pc' = "except")]_vars
    /\ [][exc = TimeoutError =>
              (exc' = exc /\ polls' = polls /\ requested' = requested
               /\ fetches' = fetches /\ pc' = "done")]_vars
    /\ [](exc = TimeoutError =>
              /\ now - start_time >= timeout
              /\ TerminalServed = {}
              /\ requested \cap {"list_conversation_messages", "get_query_result"} = {}
              /\ pgr = NoOutcome
              /\ pc = "done" => outcome.query_text = None /\ outcome.result.type = "str")

\* reached: an ask that ended by the poll's Timeout after two polls
C2_Witness ==
    /\ pc = "done"
    /\ exc = TimeoutError
    /\ polls >= 2
    /\ now - start_time >= timeout

\* C3: a terminal status ERROR or FAILED ends the poll with the message as its
\* return value, nothing is raised for it, and an ask that then returns
\* normally has run the resolver and the normalizer; Timeout is raised only
\* when no terminal status was served and the timeout has elapsed.
C3_ServiceErrorIsData ==
    LET last == served[Len(served)]
    IN  /\ (served # <<>> /\ last \in {Str("ERROR"), Str("FAILED")}) =>
              /\ ~InPoller
              /\ complete_message = PolledMessage(last.str[1])
              /\ exc # TimeoutError
              /\ exc # NoExc =>
                    requested \cap {"list_conversation_messages", "get_query_result"} # {}
              /\ (pc = "done" /\ exc = NoExc) =>
                    /\ full_message = ResolveAnswer(complete_message, messages, message_id)
                    /\ pgr # NoOutcome
                    /\ outcome.result = pgr.result
        /\ exc = TimeoutError =>
              /\ TerminalServed = {}
              /\ now - start_time >= timeout

\* reached: an ask whose poll ended on FAILED and that returned the normalized
\* answer message
C3_Witness ==
    /\ pc = "done"
    /\ exc = NoExc
    /\ served # <<>>
    /\ served[Len(served)] = Str("FAILED")
    /\ Get(complete_message, "status") = Str("FAILED")
    /\ pgr # NoOutcome
    /\ outcome.result = pgr.result

-----------------------------------------------------------------------------
(* Claims about the response resolver, checked under SpecResolve.          *)

\* the entry at index i carries the submitted message id
IsSubmitted(i) == Get(messages[i], "message_id") = message_id

\* the first entry that carries the submitted message id is at index i
FirstSubmittedAt(i) == IsSubmitted(i) /\ \A j \in 1..(i - 1) : ~IsSubmitted(j)

\* C4: when the entry with the submitted message id is at index i and is not
\* the last entry, the message selected for normalization is the entry at
\* index i+1, whatever the other entries are (their ids, roles, contents or
\* emptiness).
C4_SuccessorSelected ==
    (pc = "pgr_collect" /\ message_id.type = "str") =>
        \A i \in 1..(Len(messages) - 1) :
            FirstSubmittedAt(i) => full_message = messages[i + 1]

\* no entry that carries the submitted id has a successor: the id is not in
\* the list, or only its last entry carries it
NoSuccessor == \A i \in 1..(Len(messages) - 1) : ~IsSubmitted(i)

\* C5, as stated: when the submitted id is not found or has no successor, the
\* message of the completion poll comes first, the last entry of the list
\* only after it; the poll always returned a message, so it is the one used.
C5_PolledMessageFirst ==
    (/\ pc = "pgr_collect"
     /\ message_id.type = "str"
     /\ \A i \in 1..Len(messages) : Truthy(messages[i])
     /\ NoSuccessor) =>
        full_message = complete_message

\* C5, amended: when the submitted id is not found or has no successor, the
\* last entry of a non-empty list is used, and the message of the completion
\* poll only when the list is empty.
C5_LastEntryBeforePolled ==
    (pc = "pgr_collect" /\ NoSuccessor) =>
        full_message = IF messages # <<>> THEN messages[Len(messages)]
                       ELSE complete_message

\* reached: the submitted id is not in a non-empty list, and the last entry,
\* not the polled message, is selected
C5_Witness ==
    /\ pc = "pgr_collect"
    /\ NoSuccessor
    /\ Len(messages) = 2
    /\ \A i \in 1..2 : ~IsSubmitted(i)
    /\ full_message = messages[2]
    /\ full_message # complete_message

-----------------------------------------------------------------------------
(* Claims about process_genie_response, checked under SpecNorm.            *)

Atts == Attachments(full_message)

\* the attachment carries inline text content
CarriesText(a) ==
    /\ "text" \in DOMAIN a
    /\ "content" \in DOMAIN a.text
    /\ a.text.content.type = "str"

\* the attachment has a text.content entry, whatever its value
HasContentEntry(a) == "text" \in DOMAIN a /\ "content" \in DOMAIN a.text

CarriesQuery(a) == "query" \in DOMAIN a

\* the query text of a query attachment
QueryTextOf(a) == IF "query" \in DOMAIN a.query THEN a.query.query ELSE Str("")

\* where the query result of attachment j is fetched from
AddressOf(j) == <<conversation_id, message_id, Get(Atts[j], "attachment_id")>>

\* C6: for a message whose attachments are a text attachment followed by a
\* query attachment, the result is the text attachment's content, the query
\* text is none and no query-result request is ever issued.
C6_TextBeforeQuery ==
    (Len(Atts) = 2 /\ CarriesText(Atts[1]) /\ CarriesQuery(Atts[2])) =>
        /\ fetches = {}
        /\ "get_query_result" \notin requested
        /\ pc # "get_query_result"
        /\ pc = "return" =>
              /\ pgr.result = Atts[1].text.content
              /\ pgr.query_text = None

\* reached: the text of the first attachment returned, the query attachment
\* behind it never fetched
C6_Witness ==
    /\ pc = "return"
    /\ Atts = <<TextAtt("a1", Str("T1")), QueryAtt("a5", "SELECT 1")>>
    /\ pgr.result = Str("T1")
    /\ pgr.query_text = None
    /\ fetches = {}

\* C7, as stated: the first attachment with inline text wins wherever it is
\* in the list; when no attachment has inline text, the first attachment with
\* a query is the one whose result and query text are returned.
C7_TextWinsElseFirstQuery ==
    (pc = "return" /\ \A j \in 1..Len(Atts) : HasContentEntry(Atts[j]) => CarriesText(Atts[j])) =>
        /\ \A k \in 1..Len(Atts) :
              (CarriesText(Atts[k]) /\ \A j \in 1..(k - 1) : ~CarriesText(Atts[j])) =>
                  /\ pgr.result = Atts[k].text.content
                  /\ pgr.query_text = None
        /\ \A k \in 1..Len(Atts) :
              (/\ \A j \in 1..Len(Atts) : ~HasContentEntry(Atts[j])
               /\ CarriesQuery(Atts[k])
               /\ \A j \in 1..(k - 1) : ~CarriesQuery(Atts[j])
               /\ pgr.result.type = "DataFrame") =>
                  /\ ai = k
                  /\ pgr.query_text = QueryTextOf(Atts[k])

\* the attachments before index k yielded nothing: none has text content, and
\* each one with a query had its result fetched
YieldedNothingBefore(k) ==
    \A j \in 1..(k - 1) :
        /\ ~HasContentEntry(Atts[j])
        /\ CarriesQuery(Atts[j]) => AddressOf(j) \in fetches

\* the attachments the content pass has looked at
Scanned == (1..ai) \cap (1..Len(Atts))

\* C7, amended: the content pass takes the attachments in list order and stops
\* at the first one that yields a result. An attachment with inline text
\* yields a text result with query text none; a query attachment has its
\* result fetched and yields a tabular result with its own query text when
\* the row set is non-empty, and nothing when it is empty. No attachment
\* behind the one that yields is consulted.
C7_FirstYieldingAttachment ==
    pc = "return" =>
        /\ (result.type = "str") =>
              /\ ai \in 1..Len(Atts)
              /\ CarriesText(Atts[ai])
              /\ pgr.result = Atts[ai].text.content
              /\ pgr.query_text = None
              /\ YieldedNothingBefore(ai)
        /\ (result.type = "DataFrame") =>
              /\ ai \in 1..Len(Atts)
              /\ CarriesQuery(Atts[ai])
              /\ ~HasContentEntry(Atts[ai])
              /\ pgr.result = result
              /\ result.rows = query_result.data_array
              /\ result.rows # <<>>
              /\ pgr.query_text = QueryTextOf(Atts[ai])
              /\ YieldedNothingBefore(ai)
        /\ fetches \subseteq { AddressOf(j) : j \in Scanned }
        /\ \A j \in (1..Len(Atts)) \ Scanned :
              (\A i \in Scanned : Atts[i] # Atts[j]) => AddressOf(j) \notin fetches

\* reached: a query attachment with rows ahead of a text attachment wins, and
\* a query attachment without rows ahead of another one is passed over
C7_Witness ==
    /\ pc = "return"
    /\ \/ /\ Atts = <<QueryAtt("a5", "SELECT 1"), TextAtt("a1", Str("T1"))>>
          /\ pgr.result.type = "DataFrame"
          /\ pgr.query_text = Str("SELECT 1")
       \/ /\ Atts = <<QueryAtt("a5", "SELECT 1"), QueryAtt("a6", "SELECT 2")>>
          /\ pgr.result.type = "DataFrame"
          /\ pgr.query_text = Str("SELECT 2")
          /\ ai = 2

\* the fetched result has rows and no column descriptors
RowsWithoutColumns ==
    /\ query_result # None
    /\ query_result.data_array # <<>>
    /\ GetDefault(query_result.schema, "columns", <<>>) = <<>>

\* C8: when the fetched result has no column descriptors and R > 0 rows of C
\* values each, the result is a table of exactly those R rows under exactly C
\* column names column_0 .. column_(C-1).
C8_PositionalColumns ==
    RowsWithoutColumns =>
        LET R == Len(query_result.data_array)
            C == Len(query_result.data_array[1])
        IN  /\ \A r \in 1..R : Len(query_result.data_array[r]) = C
            /\ pc \in {"pgr_return", "return"}
            /\ result.type = "DataFrame"
            /\ Len(result.rows) = R
            /\ result.rows = query_result.data_array
            /\ Len(result.columns) = C
            /\ \A i \in 1..C : result.columns[i].str = <<"column_", ToString(i - 1)>>
            /\ pc = "return" => pgr.result = result

\* reached: two rows of one value each, no schema, returned under column_0
C8_Witness ==
    /\ pc = "return"
    /\ RowsWithoutColumns
    /\ "schema" \in DOMAIN query_result
    /\ query_result.schema = EmptyDict
    /\ Len(query_result.data_array) = MaxRows
    /\ Len(query_result.data_array[1]) = 1
    /\ pgr.result.type = "DataFrame"
    /\ Len(pgr.result.rows) = MaxRows
    /\ Len(pgr.result.columns) = 1

\* the attachment carries suggested_questions = {questions: [...]}
CarriesQuestions(a) ==
    /\ "suggested_questions" \in DOMAIN a
    /\ a.suggested_questions.type = "dict"
    /\ "questions" \in DOMAIN a.suggested_questions.dict
    /\ a.suggested_questions.dict.questions.type = "list"

\* C9: when one attachment carries suggested_questions = {questions: Q} and an
\* attachment (the same, an earlier or a later one) supplies the text or
\* query content of the result, the returned suggestions are Q.
C9_SuggestionsVerbatim ==
    (pc = "return" /\ result # None) =>
        \A k \in 1..Len(Atts) :
            (CarriesQuestions(Atts[k])
             /\ \A j \in 1..Len(Atts) : j # k => ~CarriesQuestions(Atts[j])) =>
                pgr.suggested_questions = Atts[k].suggested_questions.dict.questions

\* reached: questions on the first attachment, the table of the second one
\* returned, or the questions behind or on the attachment with the text
C9_Witness ==
    /\ pc = "return"
    /\ pgr.suggested_questions = List(<<"A", "B">>)
    /\ \/ /\ Atts = <<SuggestedAtt("a8", Questions(<<"A", "B">>)), QueryAtt("a5", "SELECT 1")>>
          /\ pgr.result.type = "DataFrame"
       \/ /\ Atts = <<TextAtt("a1", Str("T1")), SuggestedAtt("a8", Questions(<<"A", "B">>))>>
          /\ pgr.result = Str("T1")

\* C10: when no attachment yields a result, the message's own top-level
\* content is returned if present and the placeholder text otherwise; the
\* query text is none and the result is a text string, never null.
C10_FallbackIsText ==
    (pc = "return" /\ result = None) =>
        /\ pgr.result = IF "content" \in DOMAIN full_message
                        THEN full_message.content
                        ELSE Str("No response available")
        /\ pgr.query_text = None
        /\ pgr.result.type = "str"

\* C11: process_genie_response never raises: for every answer message, also
\* one with a malformed suggested-questions payload, attachments of unexpected
\* shape or a failing query-result fetch, no exception leaves it and what it
\* returns is a text or a table.
C11_NeverRaises ==
    /\ exc = NoExc
    /\ pc # "except"
    /\ pc = "return" => pgr.result.type \in {"str", "DataFrame"}

-----------------------------------------------------------------------------
(* Claims about the feedback submitter, checked under Spec.                *)

\* the status code is one of 200..299
Is2xx(status) == status # <<>> /\ status[1] = "2"

\* C12: every feedback POST carries the rating "POSITIVE" exactly when the
\* sentiment argument equals "positive", and "NEGATIVE" for every other value.
C12_RatingFollowsSentiment ==
    \A i \in 1..Len(posted) :
        /\ posted[i].rating \in {"POSITIVE", "NEGATIVE"}
        /\ posted[i].rating = "POSITIVE" <=> feedback_type = "positive"

\* reached: the sentiment "Positive", which is not "positive", posted NEGATIVE
C12_Witness ==
    /\ pc = "done"
    /\ feedback_type = "Positive"
    /\ Len(posted) = 1
    /\ posted[1].rating = "NEGATIVE"

\* C13: send_feedback never raises; it returns true exactly when the feedback
\* POST got a 2xx response and false for a non-2xx response, a transport
\* failure or a credential failure.
C13_TrueExactlyFor2xx ==
    op = "feedback" =>
        /\ pc # "raised"
        /\ pc = "done" =>
              /\ outcome \in {True, False}
              /\ outcome = True <=> (posted # <<>> /\ Is2xx(posted[Len(posted)].status))

-----------------------------------------------------------------------------
(* Claims about the retried request operations and the asks' handlers,     *)
(* checked under Spec.                                                     *)

\* the positions at which an attempt of a request operation is made
RequestPcs ==
    {"start_conversation", "send_message", "get_message",
     "list_conversation_messages", "get_query_result", "execute_query",
     "get_space_details", "gq_list"}

\* C14: every request operation makes at most 5 attempts; an attempt that
\* raises, whatever the error (a credential or transport error, a 4xx or 5xx
\* answer), is followed by another attempt of the same call while fewer than 5
\* were made; the fifth failure goes to the caller as the very error that
\* attempt raised; an attempt that returns ends the call.
C14_AtMostFiveAttempts ==
    /\ [](pc \in RequestPcs => tries \in 0..4)
    /\ [][(pc \in RequestPcs /\ tries' = tries + 1) =>
              /\ raised' \in Errors
              /\ tries + 1 < 5 => (pc' = pc /\ exc' = exc)
              /\ tries + 1 = 5 =>
                    (exc' = raised' /\ pc' \in {"except", "raised", "gq_except"})]_vars
    /\ [][(pc \in RequestPcs /\ tries' # tries + 1) =>
              (raised' = NoExc /\ pc' # pc)]_vars

\* reached: execute_query gave up after five attempts, the last one answered
\* 404, and that error is with the caller
C14_Witness ==
    /\ op = "execute_query"
    /\ pc = "raised"
    /\ tries = 5
    /\ raised = HTTPError404
    /\ exc = HTTPError404

\* C15: start_new_conversation and continue_conversation never raise: an
\* error at any step, the construction of the client included, ends in a
\* returned text with query text none and no suggestions.
C15_AsksNeverRaise ==
    op \in {"new", "continue"} =>
        /\ pc # "raised"
        /\ (pc = "done" /\ exc # NoExc) =>
              /\ outcome.result.type = "str"
              /\ outcome.query_text = None
              /\ outcome.suggested_questions = List(<<>>)

-----------------------------------------------------------------------------
(* Claims about the failure texts, checked under SpecHandler.              *)

\* the failure is an HTTP 429 answer
Is429(e) == e.type = "HTTPError" /\ e.response.status = <<"4", "2", "9">>

\* the service reports "Conversation not found"
ReportsNotFound(e) ==
    e.type = "HTTPError" /\ e.response.reason = "Conversation not found"

\* C16: continue_conversation returns the high-demand text exactly when the
\* failure is an HTTP 429 answer, the conversation-expired text exactly when
\* the service reports "Conversation not found", and the generic text for
\* every other failure.
C16_FailurePhrasing ==
    (op = "continue" /\ pc = "done") =>
        /\ outcome.result = HighDemandText <=> Is429(exc)
        /\ outcome.result = ExpiredText <=> ReportsNotFound(exc)
        /\ (~Is429(exc) /\ ~ReportsNotFound(exc)) =>
              outcome.result = StrCat(<<"Sorry, an error occurred: ">> \o exc.str)

-----------------------------------------------------------------------------
(* Claims about genie_query, checked under SpecQuery.                      *)

\* C17: when genie_query succeeds, with the service answering both list calls
\* alike and the resolver having selected a service-authored message, it
\* returns the conversation id that start returned and the id of the message
\* that the resolver selected and the normalizer turned into the result.
C17_AnswerIdentifiers ==
    (/\ caller = "genie_query"
     /\ pc = "done"
     /\ exc = NoExc
     /\ gq_messages = messages
     /\ Get(full_message, "role") = Str("ASSISTANT")) =>
        /\ gq.conversation_id = conversation_id
        /\ gq.result = pgr.result
        /\ gq.message_id = Get(full_message, "message_id")

\* the ask inside genie_query has returned its error result
AskFailed ==
    /\ caller = "genie_query"
    /\ outcome # NoOutcome
    /\ outcome.conversation_id = None

\* C24: when the ask inside genie_query has failed, genie_query makes no
\* further request to the service and the text it returns is the failure text
\* that the ask produced.
C24_NoRequestAfterFailedAsk ==
    AskFailed =>
        /\ pc = "gq_list" => tries = 0
        /\ pc = "gq_except" => exc = CredentialError
        /\ (pc = "done" /\ exc # CredentialError) =>
              /\ gq.result = outcome.result
              /\ gq_messages = <<>>

-----------------------------------------------------------------------------
(* Claims about a repeated resolution, checked under SpecTwice.            *)

\* C18: when the resolve-and-normalize steps are run a second time on the
\* same message list, polled message and stored query results, they return
\* the result, query text and suggestions that the first run returned.
C18_SecondRunSameResult ==
    (pc = "return" /\ first # NoOutcome) => pgr = first

\* reached: the second run has returned the table and the suggestions of the
\* first one
C18_Witness ==
    /\ pc = "return"
    /\ first # NoOutcome
    /\ pgr = first
    /\ pgr.result.type = "DataFrame"
    /\ pgr.query_text = Str("SELECT 1")
    /\ pgr.suggested_questions = List(<<"A", "B">>)

-----------------------------------------------------------------------------
(* Claims about the query-result request and the collection pass.          *)

\* C19: every query-result request is addressed with the conversation id, the
\* id of the answer message, which the resolver selected and which owns the
\* attachment, and the attachment's id; never with the id of another message
\* such as the submitted one. Checked under Spec.
C19_FetchAddressedToAnswer ==
    \A f \in fetches :
        /\ f[1] = conversation_id
        /\ f[2] = Get(full_message, "message_id")
        /\ \E j \in 1..Len(Atts) : f[3] = Get(Atts[j], "attachment_id")

\* C20: the returned suggestions hold the questions of every attachment with a
\* well-formed suggested-questions payload: when two attachments carry one,
\* the questions of both are returned. Checked under SpecNorm.
C20_NoQuestionsLost ==
    (pc = "return" /\ (result # None \/ "content" \in DOMAIN full_message)) =>
        \A k \in 1..Len(Atts) :
            CarriesQuestions(Atts[k]) =>
                \A q \in 1..Len(Atts[k].suggested_questions.dict.questions.items) :
                    \E r \in 1..Len(pgr.suggested_questions.items) :
                        pgr.suggested_questions.items[r] =
                            Atts[k].suggested_questions.dict.questions.items[q]

-----------------------------------------------------------------------------
(* Claims about the order of the requests, checked under SpecSeq.          *)

\* where the event stands in the log
Positions(event) == { i \in 1..Len(log) : log[i] = event }

\* every occurrence of the event later has an occurrence of earlier before it
Precedes(earlier, later) ==
    \A j \in Positions(later) : \E i \in Positions(earlier) : i < j

\* every occurrence of the one stands before every occurrence of the other
AllBefore(one, other) ==
    \A i \in Positions(one), j \in Positions(other) : i < j

\* C22: within one ask the message list is requested only after the
\* submission of the question has returned and after the poller has seen a
\* terminal status, and a query result is requested only after the list has
\* been fetched; of two asks made one after the other on one conversation,
\* every list request of the earlier one precedes every submission attempt of
\* the later one.
C22_RequestOrder ==
    \A n \in 1..MaxAsks :
        /\ Precedes(<<n, "submitted">>, <<n, "list">>)
        /\ Precedes(<<n, "terminal">>, <<n, "list">>)
        /\ Precedes(<<n, "listed">>, <<n, "fetch">>)
        /\ AllBefore(<<n, "list">>, <<n + 1, "submit">>)
        /\ AllBefore(<<n, "fetch">>, <<n + 1, "submit">>)

\* reached: two asks on one conversation, each with its submission, terminal
\* poll, list call and query-result fetch
C22_Witness ==
    /\ pc = "done"
    /\ asked = 2
    /\ conversation_id = Str("c1")
    /\ \A n \in 1..2 :
          \A event \in {"submit", "submitted", "terminal", "list", "listed", "fetch"} :
              Positions(<<n, event>>) # {}

-----------------------------------------------------------------------------
(* Claims about the credential of a request, checked under SpecAuth.       *)

\* C21: every request that goes out (each attempt of a retried operation and
\* the feedback POST alike) is immediately preceded, in its flow, by an
\* acquisition of a credential from the token collaborator, and carries the
\* credential which that acquisition obtained.
C21_FreshCredentialPerAttempt ==
    \A p \in Flows :
        /\ sent[p] # NoRequest =>
              /\ sent[p].preceded
              /\ sent[p].token = sent[p].acquired
              /\ sent[p].token # NoToken
        /\ calls[p].pc = "request" =>
              /\ calls[p].fresh
              /\ headers[HolderOf(p)] = calls[p].acquired

\* reached: the feedback POST of one flow has gone out, and a retried attempt
\* of an operation of the other flow has gone out with a token issued after
\* the one its earlier attempt carried
C21_Witness ==
    \E p, q \in Flows :
        /\ p # q
        /\ sent[p].operation = "send_message_feedback"
        /\ sent[q].operation = "start_conversation"
        /\ calls[q].tries >= 1
        /\ calls[q].pc = "returned"
        /\ sent[q].token = MaxTokens
        /\ sent[p].token < sent[q].token

-----------------------------------------------------------------------------
(* Claims about the submission of a question, checked under SpecSubmit.    *)

\* C25: one ask has at most one question submission accepted by the service,
\* whatever attempts of the submission fail and are retried, an attempt that
\* the service accepted and whose response was lost included.
C25_AtMostOneAccepted == accepted <= 1

-----------------------------------------------------------------------------
(* Further claims about process_genie_response, checked under SpecNorm.    *)

\* C26: the returned query text is non-none only when the returned result is
\* a table; whenever process_genie_response returns anything else (the
\* content of a text attachment, the top-level content, the placeholder) the
\* query text is none, also when a query attachment without rows was
\* scanned before.
C26_QueryTextOnlyWithTable ==
    pc = "return" =>
        /\ pgr.query_text # None => pgr.result.type = "DataFrame"
        /\ pgr.result.type = "str" => pgr.query_text = None
        /\ result = None => pgr.query_text = None

\* reached: a query attachment was fetched and had no rows, and what is
\* returned behind it is a text with query text none
C26_Witness ==
    /\ pc = "return"
    /\ Len(Atts) >= 1
    /\ CarriesQuery(Atts[1])
    /\ ~HasContentEntry(Atts[1])
    /\ AddressOf(1) \in fetches
    /\ pgr.result.type = "str"
    /\ pgr.query_text = None
    /\ \/ result = None
       \/ ai = 2 /\ CarriesText(Atts[2])

-----------------------------------------------------------------------------
(* Claims about asks running at the same time, checked under SpecPair.     *)

\* C23: two asks on different conversations, interleaved in any order, each
\* give back what they give back when run alone with the same answers from
\* the service: no step of one ask reads or writes a local, a client or a
\* header of the other, and what the two share is the token collaborator.
C23_ConcurrentAsksIndependent ==
    mode = "together" =>
        /\ Finished(pc) => Verdict = alone[cur]
        /\ Finished(parked.pc) => ParkedVerdict = alone[3 - cur]

\* reached: the ask on c1 began first and ended last, around the whole ask
\* on c2; the first returned a table with suggested questions, the second a
\* text without
C23_Witness ==
    /\ mode = "together"
    /\ cur = 1
    /\ pc = "done"
    /\ parked.pc = "done"
    /\ parked.requested # {}
    /\ outcome.conversation_id = Str("c1")
    /\ parked.outcome.conversation_id = Str("c2")
    /\ outcome.result.type = "DataFrame"
    /\ outcome.suggested_questions = List(<<"A", "B">>)
    /\ parked.outcome.result = Str("T1")
    /\ parked.outcome.suggested_questions = List(<<>>)
    /\ Verdict = alone[1]
    /\ ParkedVerdict = alone[2]

====
